---- MODULE Spec2Model ----
(***************************************************************************)
(* The attribute-extraction engine of the grocery scraper: the two product *)
(* processors (OdaProcessor, MenyProcessor), their rule tables and pattern *)
(* library, and the batch loop of BaseProcessor.process_products.          *)
(*                                                                         *)
(* Text is a sequence of one-character strings, so that substring search,  *)
(* splitting, case mapping and the regular expressions are computed on     *)
(* characters, as the Python code computes them.                           *)
(***************************************************************************)
EXTENDS Integers, Sequences, FiniteSets, TLC

(***************************************************************************)
(* Python values: None, str, int, float, bool, dict.                       *)
(* A float is the decimal m / 10^e, kept normalised.                       *)
(***************************************************************************)
None == [t |-> "none"]

Str(s) == [t |-> "str", s |-> s]

IntV(n) == [t |-> "int", v |-> n]

FloatV(m, e) == [t |-> "float", m |-> m, e |-> e]

BoolV(b) == [t |-> "bool", b |-> b]

Dict(d) == [t |-> "dict", d |-> d]

EmptyMap == [k \in {} |-> None]

\* e is computed once and bound to the parameter of F: the value of
\* "x = e; F(x)". Every intermediate result that is read more than once is
\* bound this way.
With(e, F(_)) == CHOOSE v \in {F(x) : x \in {e}} : TRUE

\* The function f with domain 1..n as a sequence.
Tup(f) == f \o <<>>

\* The least element of a non-empty set of integers.
Min(S) == CHOOSE m \in S : \A q \in S : m <= q

\* Python truthiness of an Optional[str]: None and "" are falsy.
Truthy(v) == v.t = "str" /\ Len(v.s) > 0

\* dict.update(u): keys of u overwrite, the other keys stay.
DictUpdate(d, u) ==
  With(d, LAMBDA dd : With(u, LAMBDA uu :
    [k \in (DOMAIN dd) \cup (DOMAIN uu) |-> IF k \in DOMAIN uu THEN uu[k] ELSE dd[k]]))

(***************************************************************************)
(* Characters.                                                             *)
(***************************************************************************)
\* A character is a one-character string. The alphabet of the texts is
\* Latin-1 (U+0000..U+00FF), with the case mappings, the whitespace and the
\* digits that Python's str and re give it. A character beyond Latin-1 is
\* written by its code point, as in "U+2003"; the alphabet holds those that
\* the case mappings of Latin-1 produce (U+0178, U+039C, U+03BC) and the
\* whitespace beyond Latin-1. The letters and digits of other scripts, and
\* the characters that re.IGNORECASE folds onto Latin-1 letters (U+0130,
\* U+0131, U+017F, U+212A, U+212B), are outside the alphabet.
\*
\* The letters c with c.lower() # c, and in LowerLetters at the same index
\* c.lower(): A-Z, U+00C0..U+00DE without the multiplication sign, and the
\* capitals U+0178 and U+039C of the Latin-1 letters U+00FF and U+00B5.
UpperLetters ==
  <<"A","B","C","D","E","F","G","H","I","J","K","L","M","N","O","P","Q","R",
    "S","T","U","V","W","X","Y","Z","À","Á","Â","Ã","Ä","Å","Æ","Ç","È","É",
    "Ê","Ë","Ì","Í","Î","Ï","Ð","Ñ","Ò","Ó","Ô","Õ","Ö","Ø","Ù","Ú","Û","Ü",
    "Ý","Þ","U+0178","U+039C">>

LowerLetters ==
  <<"a","b","c","d","e","f","g","h","i","j","k","l","m","n","o","p","q","r",
    "s","t","u","v","w","x","y","z","à","á","â","ã","ä","å","æ","ç","è","é",
    "ê","ë","ì","í","î","ï","ð","ñ","ò","ó","ô","õ","ö","ø","ù","ú","û","ü",
    "ý","þ","ÿ","U+03BC">>

\* \d of the re module within the alphabet.
Digits == <<"0","1","2","3","4","5","6","7","8","9">>

\* \s of the re module on str, and str.strip(): the characters with
\* str.isspace(). U+0009..U+000D, U+001C..U+001F, the space, U+0085,
\* U+00A0 (no-break space) and the Unicode spaces and separators beyond.
Whitespace ==
  {"\t","\n","","\f","\r","","","",""," ",
   ""," ","U+1680","U+2000","U+2001","U+2002","U+2003","U+2004","U+2005","U+2006",
   "U+2007","U+2008","U+2009","U+200A","U+2028","U+2029","U+202F","U+205F","U+3000"}

IsDigit(c) == \E i \in 1..Len(Digits) : Digits[i] = c

DigitVal(c) == (CHOOSE i \in 1..Len(Digits) : Digits[i] = c) - 1

\* c.lower() of the characters it changes, as a function.
ToLower ==
  [c \in {UpperLetters[i] : i \in 1..Len(UpperLetters)} |->
     LowerLetters[CHOOSE i \in 1..Len(UpperLetters) : UpperLetters[i] = c]]

\* c.upper() of the characters it changes, as a function to strings: the
\* sharp s becomes "SS", the micro sign the Greek capital mu U+039C.
ToUpper ==
  [c \in {LowerLetters[i] : i \in 1..Len(LowerLetters)} \cup {"ß", "µ"} |->
     IF c = "ß" THEN <<"S","S">>
     ELSE IF c = "µ" THEN <<"U+039C">>
     ELSE <<UpperLetters[CHOOSE i \in 1..Len(LowerLetters) : LowerLetters[i] = c]>>]

\* c.isupper()
IsUpperChar(c) == c \in DOMAIN ToLower

\* c.islower(): the letters with a capital and the lower-case letters
\* without one, the ordinal indicators U+00AA and U+00BA.
IsLowerChar(c) == c \in DOMAIN ToUpper \/ c \in {"ª", "º"}

\* c.lower()
LowerChar(c) == IF c \in DOMAIN ToLower THEN ToLower[c] ELSE c

\* c.upper(), a string.
UpperChar(c) == IF c \in DOMAIN ToUpper THEN ToUpper[c] ELSE <<c>>

(***************************************************************************)
(* str methods.                                                            *)
(***************************************************************************)
\* s[i:j] with 0-based i inclusive, j exclusive: characters i+1..j.
Slice(s, i, j) == SubSeq(s, i + 1, j)

Lower(s) == Tup([i \in 1..Len(s) |-> LowerChar(s[i])])

RECURSIVE Upper(_)
Upper(s) == IF s = <<>> THEN <<>> ELSE UpperChar(Head(s)) \o Upper(Tail(s))

\* str.capitalize(): first character title-cased (the upper case, "Ss" for
\* the sharp s), the rest lower-cased.
Capitalize(s) ==
  IF s = <<>> THEN <<>>
  ELSE (IF Head(s) = "ß" THEN <<"S","s">> ELSE UpperChar(Head(s)))
         \o Lower(Tail(s))

\* str.isupper(): at least one upper-case character and no lower-case one
\* (no character of the alphabet is title-case).
IsUpper(s) ==
  /\ \E i \in 1..Len(s) : IsUpperChar(s[i])
  /\ \A i \in 1..Len(s) : ~IsLowerChar(s[i])

\* k matches s at 0-based offset i.
MatchAt(k, s, i) ==
  /\ i + Len(k) <= Len(s)
  /\ \A j \in 1..Len(k) : s[i + j] = k[j]

\* k in s
Contains(s, k) == \E i \in 0..(Len(s) - Len(k)) : MatchAt(k, s, i)

\* str.strip()
Strip(s) ==
  With({i \in 1..Len(s) : s[i] \notin Whitespace}, LAMBDA P :
    IF P = {} THEN <<>>
    ELSE SubSeq(s, Min(P), CHOOSE b \in P : \A q \in P : q <= b))

\* str.split(sep) for a one-character separator: the parts between the
\* positions P of the separator, P taken in ascending order.
Split(s, sep) ==
  With({i \in 1..Len(s) : s[i] = sep}, LAMBDA P :
    Tup([k \in 1..(Cardinality(P) + 1) |->
          SubSeq(s,
                 IF k = 1 THEN 1
                 ELSE 1 + (CHOOSE p \in P : Cardinality({q \in P : q < p}) = k - 2),
                 IF k = Cardinality(P) + 1 THEN Len(s)
                 ELSE (CHOOSE p \in P : Cardinality({q \in P : q < p}) = k - 1) - 1)]))

\* str.replace(a, b) for single characters.
ReplaceChar(s, a, b) == Tup([i \in 1..Len(s) |-> IF s[i] = a THEN b ELSE s[i]])

\* re.sub of a character class by "": the characters of s not in drop, in order.
RemoveChars(s, drop) ==
  LET keep(c) == c \notin drop IN SelectSeq(s, keep)

\* re.sub(r"\s+", " ", s): every maximal whitespace run becomes one space.
\* P is the set of positions that survive: the non-whitespace characters
\* and the first character of each whitespace run.
CollapseWhitespace(s) ==
  With({i \in 1..Len(s) :
          s[i] \notin Whitespace \/ i = 1 \/ s[i - 1] \notin Whitespace},
       LAMBDA P :
         Tup([n \in 1..Cardinality(P) |->
               LET p == CHOOSE x \in P : Cardinality({q \in P : q < x}) = n - 1
               IN  IF s[p] \in Whitespace THEN " " ELSE s[p]]))

\* f"{a} {b}"
Join2(a, b) == a \o <<" ">> \o b

(***************************************************************************)
(* Numbers read from matched text.                                         *)
(***************************************************************************)
\* int() of the first n characters of the digit string ds.
RECURSIVE ParseDigits(_, _)
ParseDigits(ds, n) ==
  IF n = 0 THEN 0 ELSE 10 * ParseDigits(ds, n - 1) + DigitVal(ds[n])

\* int(ds)
ParseInt(ds) == ParseDigits(ds, Len(ds))

\* The float m / 10^e without trailing zeros in the fraction.
RECURSIVE NormFloat(_, _)
NormFloat(m, e) ==
  IF e > 0 /\ m % 10 = 0 THEN NormFloat(m \div 10, e - 1) ELSE FloatV(m, e)

\* float(num.replace(",", ".")) for num of the shape \d+(?:[.,]\d+)?
ParseFloat(num) ==
  With({i \in 1..Len(num) : ~IsDigit(num[i])}, LAMBDA P :
    IF P = {} THEN NormFloat(ParseInt(num), 0)
    ELSE NormFloat(ParseInt(SubSeq(num, 1, Min(P) - 1) \o SubSeq(num, Min(P) + 1, Len(num))),
                   Len(num) - Min(P)))

(***************************************************************************)
(* Regular-expression pieces shared by the patterns. Offsets are 0-based;  *)
(* a failed match is NoMatch.                                              *)
(***************************************************************************)
NoMatch == -1

\* \d+ at offset i, greedy: the end offset of the digit run that starts at
\* i, or NoMatch.
DigitsEnd(s, i) ==
  IF i >= 0 /\ i < Len(s) /\ IsDigit(s[i + 1])
  THEN CHOOSE j \in (i + 1)..Len(s) :
         /\ \A k \in (i + 1)..j : IsDigit(s[k])
         /\ (j = Len(s) \/ ~IsDigit(s[j + 1]))
  ELSE NoMatch

\* NumberEnd with the bug of a pattern without the decimal part: \d+ only.
NumberEnd_integer(s, i) == DigitsEnd(s, i)

\* \d+(?:[.,]\d+)? at offset i: end offset, or NoMatch. What follows the
\* group in every pattern is neither a digit nor [.,], so giving back digits
\* or the fraction never turns a failure into a match.
NumberEnd(s, i) ==
  With(DigitsEnd(s, i), LAMBDA a :
    IF a = NoMatch THEN NoMatch
    ELSE IF a < Len(s) /\ s[a + 1] \in {".", ","} /\ DigitsEnd(s, a + 1) # NoMatch
         THEN DigitsEnd(s, a + 1)
         ELSE a)

\* \s* at offset i, greedy: end offset.
SpacesEnd(s, i) ==
  CHOOSE j \in i..Len(s) :
    /\ \A k \in (i + 1)..j : s[k] \in Whitespace
    /\ (j = Len(s) \/ s[j + 1] \notin Whitespace)

\* (a|b|...) at offset i for the ordered alternatives alts: the index of the
\* first alternative that matches there, or 0.
AltAt(alts, s, i) ==
  With({k \in 1..Len(alts) : MatchAt(alts[k], s, i)}, LAMBDA M :
    IF M = {} THEN 0 ELSE Min(M))

\* re.search: the leftmost offset of s at which the attempt at(i) succeeds,
\* or NoMatch.
Leftmost(s, at(_)) ==
  With({i \in 0..(Len(s) - 1) : at(i)}, LAMBDA M :
    IF M = {} THEN NoMatch ELSE Min(M))

BRANDS ==
  << << <<"t","i","n","e">>, <<"T","I","N","E">> >>,
     << <<"o","a","t","l","y">>, <<"O","A","T","L","Y">> >>,
     << <<"p","r","i","o","r">>, <<"P","r","i","o","r">> >>,
     << <<"q"," ","m","e","i","e","r","i","e","n","e">>, <<"Q">> >>,
     << <<"q","-","m","e","i","e","r","i","e","n","e">>, <<"Q">> >>,
     << <<"q">>, <<"Q">> >>,
     << <<"m","e","l","a","n","g","e">>, <<"M","e","l","a","n","g","e">> >>,
     << <<"s","o","f","t"," ","f","l","o","r","a">>, <<"S","o","f","t"," ","F","l","o","r","a">> >>,
     << <<"a","l","p","r","o">>, <<"A","l","p","r","o">> >>,
     << <<"s","y","n","n","ø","v","e">>, <<"S","y","n","n","ø","v","e">> >>,
     << <<"s","y","n","n","ø","v","e"," ","f","i","n","d","e","n">>, <<"S","y","n","n","ø","v","e"," ","F","i","n","d","e","n">> >>,
     << <<"r","ø","r","o","s","m","e","i","e","r","i","e","t">>, <<"R","ø","r","o","s","m","e","i","e","r","i","e","t">> >>,
     << <<"c","a","s","t","e","l","l","o">>, <<"C","a","s","t","e","l","l","o">> >>,
     << <<"k","a","v","l","i">>, <<"K","a","v","l","i">> >>,
     << <<"f","j","o","r","d","l","a","n","d">>, <<"F","j","o","r","d","l","a","n","d">> >>,
     << <<"y","o","p","l","a","i","t">>, <<"Y","o","p","l","a","i","t">> >>,
     << <<"d","a","n","o","n","i","n","o">>, <<"D","a","n","o","n","i","n","o">> >>,
     << <<"h","e","l","i","o","s">>, <<"H","e","l","i","o","s">> >>,
     << <<"s","t","a","n","g","e">>, <<"S","t","a","n","g","e">> >>,
     << <<"v","i","t","a"," ","h","j","e","r","t","e","g","o","'">>, <<"V","i","t","a"," ","h","j","e","r","t","e","g","o","'">> >>,
     << <<"s","p","r","o","u","d">>, <<"S","p","r","o","u","d">> >>,
     << <<"b","r","e","m","y","k","t">>, <<"B","r","e","m","y","k","t">> >>,
     << <<"m","i","l","l","s">>, <<"M","i","l","l","s">> >>,
     << <<"a","r","l","a">>, <<"A","r","l","a">> >>,
     << <<"g","o","'">>, <<"G","o","'">> >>,
     << <<"g","o","'","m","o","r","g","e","n">>, <<"G","o","'","m","o","r","g","e","n">> >>,
     << <<"g","o","'","d","a","g">>, <<"G","o","'","d","a","g">> >>,
     << <<"g","a","l","b","a","n","i">>, <<"G","a","l","b","a","n","i">> >>,
     << <<"p","r","é","s","i","d","e","n","t">>, <<"P","r","é","s","i","d","e","n","t">> >>,
     << <<"b","e","c","e","l">>, <<"B","e","c","e","l">> >> >>

SUBCATEGORY_MAPPING ==
  << << <<"m","e","l","k">>,
       << <<"m","e","l","k">>,
         <<"l","e","t","t","m","e","l","k">>,
         <<"s","k","u","m","m","e","t">>,
         <<"m","j","ø","l","k">>,
         <<"l","i","t","a","g","o">>,
         <<"h","e","l","m","e","l","k">>,
         <<"k","u","l","t","u","r","m","j","ø","l","k">> >> >>,
     << <<"p","l","a","n","t","e","b","a","s","e","r","t">>,
       << <<"h","a","v","r","e","d","r","i","k","k">>,
         <<"s","o","y","a","d","r","i","k","k">>,
         <<"m","a","n","d","e","l","d","r","i","k","k">>,
         <<"m","y","l","k">>,
         <<"i","k","a","f","f","e">>,
         <<"p","l","a","n","t","e","b","a","s","e","r","t">>,
         <<"p","l","a","n","t","e","d","r","i","k","k">> >> >>,
     << <<"o","s","t">>,
       << <<"o","s","t">>,
         <<"n","o","r","v","e","g","i","a">>,
         <<"j","a","r","l","s","b","e","r","g">>,
         <<"g","e","i","t","o","s","t">>,
         <<"m","o","z","z","a","r","e","l","l","a">>,
         <<"c","h","e","d","d","a","r">>,
         <<"p","i","z","z","a","o","s","t">>,
         <<"m","a","n","c","h","e","g","o">>,
         <<"b","l","u","e">>,
         <<"s","e","l","b","u"," ","b","l","å">>,
         <<"p","a","r","m","i","g","i","a","n","o">>,
         <<"g","r","a","n","a"," ","p","a","d","a","n","o">> >> >>,
     << <<"s","m","ø","r">>,
       << <<"s","m","ø","r">>,
         <<"m","e","i","e","r","i","s","m","ø","r">>,
         <<"m","a","r","g","a","r","i","n">>,
         <<"m","e","l","a","n","g","e">>,
         <<"s","o","f","t"," ","f","l","o","r","a">>,
         <<"b","r","e","l","e","t","t">>,
         <<"b","r","e","m","y","k","t">> >> >>,
     << <<"e","g","g">>,
       << <<"e","g","g">>,
         <<"h","ø","n","e","r">> >> >>,
     << <<"f","l","ø","t","e","_","r","ø","m","m","e">>,
       << <<"r","ø","m","m","e">>,
         <<"c","r","è","m","e"," ","f","r","a","î","c","h","e">>,
         <<"m","a","t","f","l","ø","t","e">>,
         <<"h","a","v","r","e","f","l","ø","t","e">>,
         <<"i","m","a","t">>,
         <<"m","a","t","f","r","i","s","k">>,
         <<"m","a","t","f","l","ø","y","e","l">>,
         <<"f","l","ø","t","e">>,
         <<"k","r","e","m","f","l","ø","t","e">> >> >>,
     << <<"y","o","g","h","u","r","t">>,
       << <<"y","o","g","h","u","r","t">>,
         <<"s","k","y","r">>,
         <<"b","i","o","l","a">>,
         <<"g","o","'","m","o","r","g","e","n">>,
         <<"a","c","t","i","v","i","a">>,
         <<"g","o","'","d","a","g">> >> >>,
     << <<"k","j","ø","l","t","e","_","d","e","s","s","e","r","t","e","r">>,
       << <<"p","u","d","d","i","n","g">>,
         <<"r","i","s","g","r","ø","t">>,
         <<"r","i","s","p","u","d","d","i","n","g">>,
         <<"r","i","s","e","n","g","r","y","n","s","g","r","ø","t">> >> >>,
     << <<"c","o","t","t","a","g","e","_","c","h","e","e","s","e">>,
       << <<"c","o","t","t","a","g","e"," ","c","h","e","e","s","e">>,
         <<"k","e","s","a","m">>,
         <<"k","v","a","r","g">>,
         <<"c","o","t","t","a","g","e">> >> >> >>

Meny_BRANDS ==
  << << <<"t","i","n","e">>, <<"T","I","N","E">> >>,
     << <<"o","a","t","l","y">>, <<"O","A","T","L","Y">> >>,
     << <<"p","r","i","o","r">>, <<"P","r","i","o","r">> >>,
     << <<"q"," ","m","e","i","e","r","i","e","n","e">>, <<"Q">> >>,
     << <<"q","-","m","e","i","e","r","i","e","n","e">>, <<"Q">> >>,
     << <<"q">>, <<"Q">> >>,
     << <<"m","e","l","a","n","g","e">>, <<"M","e","l","a","n","g","e">> >>,
     << <<"s","o","f","t"," ","f","l","o","r","a">>, <<"S","o","f","t"," ","F","l","o","r","a">> >>,
     << <<"a","l","p","r","o">>, <<"A","l","p","r","o">> >>,
     << <<"s","y","n","n","ø","v","e">>, <<"S","y","n","n","ø","v","e">> >>,
     << <<"s","y","n","n","ø","v","e"," ","f","i","n","d","e","n">>, <<"S","y","n","n","ø","v","e"," ","F","i","n","d","e","n">> >>,
     << <<"r","ø","r","o","s","m","e","i","e","r","i","e","t">>, <<"R","ø","r","o","s","m","e","i","e","r","i","e","t">> >>,
     << <<"c","a","s","t","e","l","l","o">>, <<"C","a","s","t","e","l","l","o">> >>,
     << <<"k","a","v","l","i">>, <<"K","a","v","l","i">> >>,
     << <<"f","j","o","r","d","l","a","n","d">>, <<"F","j","o","r","d","l","a","n","d">> >>,
     << <<"y","o","p","l","a","i","t">>, <<"Y","o","p","l","a","i","t">> >>,
     << <<"d","a","n","o","n","i","n","o">>, <<"D","a","n","o","n","i","n","o">> >>,
     << <<"h","e","l","i","o","s">>, <<"H","e","l","i","o","s">> >>,
     << <<"s","t","a","n","g","e">>, <<"S","t","a","n","g","e">> >>,
     << <<"v","i","t","a"," ","h","j","e","r","t","e","g","o","'">>, <<"V","i","t","a"," ","h","j","e","r","t","e","g","o","'">> >>,
     << <<"s","p","r","o","u","d">>, <<"S","p","r","o","u","d">> >>,
     << <<"b","r","e","m","y","k","t">>, <<"B","r","e","m","y","k","t">> >>,
     << <<"m","i","l","l","s">>, <<"M","i","l","l","s">> >>,
     << <<"a","r","l","a">>, <<"A","r","l","a">> >>,
     << <<"g","o","'">>, <<"G","o","'">> >>,
     << <<"g","o","'","m","o","r","g","e","n">>, <<"G","o","'","m","o","r","g","e","n">> >>,
     << <<"g","o","'","d","a","g">>, <<"G","o","'","d","a","g">> >>,
     << <<"g","a","l","b","a","n","i">>, <<"G","a","l","b","a","n","i">> >>,
     << <<"p","r","é","s","i","d","e","n","t">>, <<"P","r","é","s","i","d","e","n","t">> >>,
     << <<"b","e","c","e","l">>, <<"B","e","c","e","l">> >> >>

\* The subcategory table of MenyProcessor drifted from the one of
\* OdaProcessor: the first entry ("melk") is missing.
Meny_SUBCATEGORY_MAPPING_drifted ==
  SubSeq(SUBCATEGORY_MAPPING, 2, Len(SUBCATEGORY_MAPPING))

Meny_SUBCATEGORY_MAPPING ==
  << << <<"m","e","l","k">>,
       << <<"m","e","l","k">>,
         <<"l","e","t","t","m","e","l","k">>,
         <<"s","k","u","m","m","e","t">>,
         <<"m","j","ø","l","k">>,
         <<"l","i","t","a","g","o">>,
         <<"h","e","l","m","e","l","k">>,
         <<"k","u","l","t","u","r","m","j","ø","l","k">> >> >>,
     << <<"p","l","a","n","t","e","b","a","s","e","r","t">>,
       << <<"h","a","v","r","e","d","r","i","k","k">>,
         <<"s","o","y","a","d","r","i","k","k">>,
         <<"m","a","n","d","e","l","d","r","i","k","k">>,
         <<"m","y","l","k">>,
         <<"i","k","a","f","f","e">>,
         <<"p","l","a","n","t","e","b","a","s","e","r","t">>,
         <<"p","l","a","n","t","e","d","r","i","k","k">> >> >>,
     << <<"o","s","t">>,
       << <<"o","s","t">>,
         <<"n","o","r","v","e","g","i","a">>,
         <<"j","a","r","l","s","b","e","r","g">>,
         <<"g","e","i","t","o","s","t">>,
         <<"m","o","z","z","a","r","e","l","l","a">>,
         <<"c","h","e","d","d","a","r">>,
         <<"p","i","z","z","a","o","s","t">>,
         <<"m","a","n","c","h","e","g","o">>,
         <<"b","l","u","e">>,
         <<"s","e","l","b","u"," ","b","l","å">>,
         <<"p","a","r","m","i","g","i","a","n","o">>,
         <<"g","r","a","n","a"," ","p","a","d","a","n","o">> >> >>,
     << <<"s","m","ø","r">>,
       << <<"s","m","ø","r">>,
         <<"m","e","i","e","r","i","s","m","ø","r">>,
         <<"m","a","r","g","a","r","i","n">>,
         <<"m","e","l","a","n","g","e">>,
         <<"s","o","f","t"," ","f","l","o","r","a">>,
         <<"b","r","e","l","e","t","t">>,
         <<"b","r","e","m","y","k","t">> >> >>,
     << <<"e","g","g">>,
       << <<"e","g","g">>,
         <<"h","ø","n","e","r">> >> >>,
     << <<"f","l","ø","t","e","_","r","ø","m","m","e">>,
       << <<"r","ø","m","m","e">>,
         <<"c","r","è","m","e"," ","f","r","a","î","c","h","e">>,
         <<"m","a","t","f","l","ø","t","e">>,
         <<"h","a","v","r","e","f","l","ø","t","e">>,
         <<"i","m","a","t">>,
         <<"m","a","t","f","r","i","s","k">>,
         <<"m","a","t","f","l","ø","y","e","l">>,
         <<"f","l","ø","t","e">>,
         <<"k","r","e","m","f","l","ø","t","e">> >> >>,
     << <<"y","o","g","h","u","r","t">>,
       << <<"y","o","g","h","u","r","t">>,
         <<"s","k","y","r">>,
         <<"b","i","o","l","a">>,
         <<"g","o","'","m","o","r","g","e","n">>,
         <<"a","c","t","i","v","i","a">>,
         <<"g","o","'","d","a","g">> >> >>,
     << <<"k","j","ø","l","t","e","_","d","e","s","s","e","r","t","e","r">>,
       << <<"p","u","d","d","i","n","g">>,
         <<"r","i","s","g","r","ø","t">>,
         <<"r","i","s","p","u","d","d","i","n","g">>,
         <<"r","i","s","e","n","g","r","y","n","s","g","r","ø","t">> >> >>,
     << <<"c","o","t","t","a","g","e","_","c","h","e","e","s","e">>,
       << <<"c","o","t","t","a","g","e"," ","c","h","e","e","s","e">>,
         <<"k","e","s","a","m">>,
         <<"k","v","a","r","g">>,
         <<"c","o","t","t","a","g","e">> >> >> >>

(***************************************************************************)
(* OdaProcessor: pattern library (PATTERNS) and extraction methods.        *)
(* A pattern attempt at one offset is [ok, ...groups]; the methods call    *)
(* re.search, which returns the attempt at the leftmost offset that        *)
(* succeeds. Under re.IGNORECASE the literals are compared with the        *)
(* case-folded text ls; the groups are cut from the text s itself.         *)
(***************************************************************************)
\* size: (\d+(?:[.,]\d+)?)\s*(l|ml|g|kg|dl|cl|stk)
SizeUnits ==
  <<<<"l">>, <<"m","l">>, <<"g">>, <<"k","g">>, <<"d","l">>, <<"c","l">>, <<"s","t","k">>>>

\* multipack: (\d+)x(\d+(?:[.,]\d+)?)\s*(g|ml|l|kg|stk)
MultipackUnits ==
  <<<<"g">>, <<"m","l">>, <<"l">>, <<"k","g">>, <<"s","t","k">>>>

\* pack_quantity: (\d+)\s*(?:pk|stk|pakk|pakning)
PackWords ==
  <<<<"p","k">>, <<"s","t","k">>, <<"p","a","k","k">>, <<"p","a","k","n","i","n","g">>>>

\* egg_size: (?:str\.?|størrelse)\s*(xs|s|m|l|xl)
EggSizes ==
  <<<<"x","s">>, <<"s">>, <<"m">>, <<"l">>, <<"x","l">>>>

\* egg_quantity: (\d+)\s*(?:stk|egg)
EggQuantityWords ==
  <<<<"s","t","k">>, <<"e","g","g">>>>

\* aging: (\d+)\s*(?:mnd|måned)
AgingWords ==
  <<<<"m","n","d">>, <<"m","å","n","e","d">>>>

NoGroups == [ok |-> FALSE]

SizeAt(s, ls, i) ==
  With(NumberEnd(s, i), LAMBDA a :
    IF a = NoMatch THEN NoGroups
    ELSE With(SpacesEnd(s, a), LAMBDA b :
           With(AltAt(SizeUnits, ls, b), LAMBDA k :
             IF k = 0 THEN NoGroups
             ELSE [ok |-> TRUE,
                   num |-> Slice(s, i, a),
                   unit |-> Slice(s, b, b + Len(SizeUnits[k]))])))

Oda_extract_size(info) ==
  With(Lower(info), LAMBDA ls :
    LET at(i) == SizeAt(info, ls, i).ok IN
    With(Leftmost(info, at), LAMBDA i :
      IF i = NoMatch THEN [size_quantity |-> None, size_unit |-> None]
      ELSE With(SizeAt(info, ls, i), LAMBDA size_match :
             [size_quantity |-> ParseFloat(size_match.num),
              size_unit |-> Str(Lower(size_match.unit))])))

\* PercentAt with the bug of a mandatory tail: (\d+(?:[.,]\d+)?)%\s+fett
PercentAt_fett_required(s, i) ==
  With(NumberEnd(s, i), LAMBDA a :
    IF a # NoMatch /\ a < Len(s) /\ s[a + 1] = "%"
       /\ SpacesEnd(s, a + 1) > a + 1
       /\ MatchAt(<<"f","e","t","t">>, s, SpacesEnd(s, a + 1))
    THEN [ok |-> TRUE, num |-> Slice(s, i, a)]
    ELSE NoGroups)

\* percentage: (\d+(?:[.,]\d+)?)%(?:\s+fett)?  -- searched without
\* re.IGNORECASE; the optional tail does not change group 1.
PercentAt(s, i) ==
  With(NumberEnd(s, i), LAMBDA a :
    IF a # NoMatch /\ a < Len(s) /\ s[a + 1] = "%"
    THEN [ok |-> TRUE, num |-> Slice(s, i, a)]
    ELSE NoGroups)

Oda_extract_fat_content(info) ==
  LET at(i) == PercentAt(info, i).ok IN
  With(Leftmost(info, at), LAMBDA i :
    IF i = NoMatch THEN None ELSE ParseFloat(PercentAt(info, i).num))

MultipackAt(s, ls, i) ==
  With(DigitsEnd(s, i), LAMBDA a :
    IF a = NoMatch \/ a >= Len(s) \/ ls[a + 1] # "x" THEN NoGroups
    ELSE With(NumberEnd(s, a + 1), LAMBDA b :
           IF b = NoMatch THEN NoGroups
           ELSE With(SpacesEnd(s, b), LAMBDA c :
                  With(AltAt(MultipackUnits, ls, c), LAMBDA k :
                    IF k = 0 THEN NoGroups
                    ELSE [ok |-> TRUE,
                          count |-> Slice(s, i, a),
                          num |-> Slice(s, a + 1, b),
                          unit |-> Slice(s, c, c + Len(MultipackUnits[k]))]))))

\* (\d+)\s*(?:w1|w2|...) at offset i: [ok, num].
CountWordAt(words, s, ls, i) ==
  With(DigitsEnd(s, i), LAMBDA a :
    IF a # NoMatch /\ AltAt(words, ls, SpacesEnd(s, a)) # 0
    THEN [ok |-> TRUE, num |-> Slice(s, i, a)]
    ELSE NoGroups)

\* re.search of (\d+)\s*(?:w1|w2|...) with re.IGNORECASE: group 1 as an int,
\* or None.
SearchCount(words, info) ==
  With(Lower(info), LAMBDA ls :
    LET at(i) == CountWordAt(words, info, ls, i).ok IN
    With(Leftmost(info, at), LAMBDA i :
      IF i = NoMatch THEN None
      ELSE IntV(ParseInt(CountWordAt(words, info, ls, i).num))))

\* Oda_extract_multipack_info with the bug of trying the pack-quantity
\* pattern first.
Oda_extract_multipack_info_pack_first(info) ==
  With(SearchCount(PackWords, info), LAMBDA pack_quantity :
    IF pack_quantity # None
    THEN [pack_quantity |-> pack_quantity, unit_size |-> None, unit_size_unit |-> None]
    ELSE With(Lower(info), LAMBDA ls :
           LET at(i) == MultipackAt(info, ls, i).ok IN
           With(Leftmost(info, at), LAMBDA i :
             IF i # NoMatch
             THEN With(MultipackAt(info, ls, i), LAMBDA multipack_match :
                    [pack_quantity |-> IntV(ParseInt(multipack_match.count)),
                     unit_size |-> ParseFloat(multipack_match.num),
                     unit_size_unit |-> Str(Lower(multipack_match.unit))])
             ELSE [pack_quantity |-> None, unit_size |-> None,
                   unit_size_unit |-> None])))

Oda_extract_multipack_info(info) ==
  With(Lower(info), LAMBDA ls :
    LET at(i) == MultipackAt(info, ls, i).ok IN
    With(Leftmost(info, at), LAMBDA i :
      IF i # NoMatch
      THEN With(MultipackAt(info, ls, i), LAMBDA multipack_match :
             [pack_quantity |-> IntV(ParseInt(multipack_match.count)),
              unit_size |-> ParseFloat(multipack_match.num),
              unit_size_unit |-> Str(Lower(multipack_match.unit))])
      ELSE [pack_quantity |-> SearchCount(PackWords, info),
            unit_size |-> None,
            unit_size_unit |-> None]))

\* EggSizePrefixEnd with the prefix optional: without a prefix the token is
\* looked for at offset i itself.
EggSizePrefixEnd_optional(s, ls, i) ==
  IF MatchAt(<<"s","t","r">>, ls, i)
  THEN IF i + 3 < Len(s) /\ s[i + 4] = "." THEN i + 4 ELSE i + 3
  ELSE IF MatchAt(<<"s","t","ø","r","r","e","l","s","e">>, ls, i)
  THEN i + Len(<<"s","t","ø","r","r","e","l","s","e">>)
  ELSE i

\* One attempt of the egg_size pattern at offset i: the prefix "str" with an
\* optional ".", or "størrelse"; then \s*; then the size token.
EggSizePrefixEnd(s, ls, i) ==
  IF MatchAt(<<"s","t","r">>, ls, i)
  THEN IF i + 3 < Len(s) /\ s[i + 4] = "." THEN i + 4 ELSE i + 3
  ELSE IF MatchAt(<<"s","t","ø","r","r","e","l","s","e">>, ls, i)
  THEN i + Len(<<"s","t","ø","r","r","e","l","s","e">>)
  ELSE NoMatch

EggSizeAt(s, ls, i) ==
  With(EggSizePrefixEnd(s, ls, i), LAMBDA a :
    IF a = NoMatch THEN NoGroups
    ELSE With(SpacesEnd(s, a), LAMBDA b :
           With(AltAt(EggSizes, ls, b), LAMBDA k :
             IF k = 0 THEN NoGroups
             ELSE [ok |-> TRUE, size |-> Slice(s, b, b + Len(EggSizes[k]))])))

\* EggType with the organic keyword tested before the free-range one.
EggType_organic_first(info_lower) ==
  IF Contains(info_lower, <<"ø","k","o","l","o","g","i","s","k">>)
  THEN Str(<<"Ø","k","o","l","o","g","i","s","k">>)
  ELSE IF Contains(info_lower, <<"f","r","i","t","t","g","å","e","n","d","e">>)
  THEN Str(<<"F","r","i","t","t","g","å","e","n","d","e">>)
  ELSE IF Contains(info_lower, <<"f","r","i","l","a","n","d">>)
  THEN Str(<<"F","r","i","l","a","n","d">>)
  ELSE None

EggType(info_lower) ==
  IF Contains(info_lower, <<"f","r","i","t","t","g","å","e","n","d","e">>)
  THEN Str(<<"F","r","i","t","t","g","å","e","n","d","e">>)
  ELSE IF Contains(info_lower, <<"ø","k","o","l","o","g","i","s","k">>)
  THEN Str(<<"Ø","k","o","l","o","g","i","s","k">>)
  ELSE IF Contains(info_lower, <<"f","r","i","l","a","n","d">>)
  THEN Str(<<"F","r","i","l","a","n","d">>)
  ELSE None

\* Oda_extract_egg_info with the bug of a key written without its prefix:
\* "type" for "egg_type".
Oda_extract_egg_info_type_key(info) ==
  With(Lower(info), LAMBDA ls :
    LET at(i) == EggSizeAt(info, ls, i).ok IN
    With(Leftmost(info, at), LAMBDA i :
      [egg_size |->
         IF i = NoMatch THEN None ELSE Str(Upper(EggSizeAt(info, ls, i).size)),
       egg_quantity |-> SearchCount(EggQuantityWords, info),
       type |-> EggType(ls)]))

Oda_extract_egg_info(info) ==
  With(Lower(info), LAMBDA ls :
    LET at(i) == EggSizeAt(info, ls, i).ok IN
    With(Leftmost(info, at), LAMBDA i :
      [egg_size |->
         IF i = NoMatch THEN None ELSE Str(Upper(EggSizeAt(info, ls, i).size)),
       egg_quantity |-> SearchCount(EggQuantityWords, info),
       egg_type |-> EggType(ls)]))

\* any(term in text for term in terms)
AnyIn(terms, text) == \E k \in 1..Len(terms) : Contains(text, terms[k])

\* FirstIn taking the last entry of the list that occurs instead.
FirstIn_last(terms, text) ==
  With({k \in 1..Len(terms) : Contains(text, terms[k])}, LAMBDA M :
    IF M = {} THEN 0 ELSE CHOOSE m \in M : \A q \in M : m >= q)

\* The index of the first entry of the ordered list terms that occurs in
\* text, or 0.
FirstIn(terms, text) ==
  With({k \in 1..Len(terms) : Contains(text, terms[k])}, LAMBDA M :
    IF M = {} THEN 0 ELSE Min(M))

CheeseTypes ==
  <<<<"h","v","i","t">>, <<"b","l","å">>, <<"b","r","i","e">>, <<"c","h","e","d","d","a","r">>,
    <<"f","e","t","a">>, <<"p","a","r","m","e","s","a","n">>,
    <<"g","e","i","t","o","s","t">>, <<"b","r","u","n","o","s","t">>>>

Preparation(info_lower) ==
  IF AnyIn(<<<<"s","k","i","v","e","t">>, <<"s","k","i","v","e","r">>>>, info_lower)
  THEN Str(<<"S","k","i","v","e","t">>)
  ELSE IF AnyIn(<<<<"r","e","v","e","t">>, <<"r","a","s","p","e","t">>>>, info_lower)
  THEN Str(<<"R","e","v","e","t">>)
  ELSE IF Contains(info_lower, <<"h","e","l">>)
  THEN Str(<<"H","e","l">>)
  ELSE None

Oda_extract_cheese_info(info) ==
  With(Lower(info), LAMBDA ls :
    LET at(i) == CountWordAt(AgingWords, info, ls, i).ok IN
    With(Leftmost(info, at), LAMBDA i :
      With(FirstIn(CheeseTypes, ls), LAMBDA c :
        [cheese_type |-> IF c = 0 THEN None ELSE Str(Capitalize(CheeseTypes[c])),
         aging |->
           IF i = NoMatch THEN None
           ELSE Str(CountWordAt(AgingWords, info, ls, i).num \o <<" ","m","å","n","e","d","e","r">>),
         preparation |-> Preparation(ls)])))

\* Oda_extract_dietary_info with the flags mutually exclusive: the first flag
\* whose keyword occurs is the only one set.
Oda_extract_dietary_info_exclusive(info) ==
  With(Lower(info), LAMBDA info_lower :
    With(AnyIn(<<<<"l","a","k","t","o","s","e","f","r","i">>, <<"u","t","e","n"," ","l","a","k","t","o","s","e">>>>, info_lower), LAMBDA lactose :
    With(~lactose /\ AnyIn(<<<<"g","l","u","t","e","n","f","r","i">>, <<"u","t","e","n"," ","g","l","u","t","e","n">>>>, info_lower), LAMBDA gluten :
    With(~lactose /\ ~gluten /\ AnyIn(<<<<"ø","k","o","l","o","g","i","s","k">>, <<"o","r","g","a","n","i","c">>, <<"e","c","o">>, <<"ø","k","o">>>>, info_lower), LAMBDA organic :
      [lactose_free |-> BoolV(lactose),
       gluten_free |-> BoolV(gluten),
       organic |-> BoolV(organic),
       vegan |-> BoolV(~lactose /\ ~gluten /\ ~organic /\
                       AnyIn(<<<<"v","e","g","a","n","s","k">>, <<"v","e","g","a","n">>, <<"p","l","a","n","t","e","b","a","s","e","r","t">>>>, info_lower))]))))

Oda_extract_dietary_info(info) ==
  With(Lower(info), LAMBDA info_lower :
    [lactose_free |->
       BoolV(AnyIn(<<<<"l","a","k","t","o","s","e","f","r","i">>, <<"u","t","e","n"," ","l","a","k","t","o","s","e">>>>, info_lower)),
     gluten_free |->
       BoolV(AnyIn(<<<<"g","l","u","t","e","n","f","r","i">>, <<"u","t","e","n"," ","g","l","u","t","e","n">>>>, info_lower)),
     organic |->
       BoolV(AnyIn(<<<<"ø","k","o","l","o","g","i","s","k">>, <<"o","r","g","a","n","i","c">>,
                     <<"e","c","o">>, <<"ø","k","o">>>>, info_lower)),
     vegan |->
       BoolV(AnyIn(<<<<"v","e","g","a","n","s","k">>, <<"v","e","g","a","n">>,
                     <<"p","l","a","n","t","e","b","a","s","e","r","t">>>>, info_lower))])

Flavors ==
  <<<<"j","o","r","d","b","æ","r">>, <<"v","a","n","i","l","j","e">>, <<"s","j","o","k","o","l","a","d","e">>,
    <<"b","r","i","n","g","e","b","æ","r">>, <<"b","l","å","b","æ","r">>, <<"s","k","o","g","s","b","æ","r">>,
    <<"k","a","k","a","o">>, <<"k","a","r","a","m","e","l","l">>, <<"s","i","t","r","o","n">>, <<"e","p","l","e">>, <<"k","a","n","e","l">>,
    <<"k","a","r","d","e","m","o","m","m","e">>, <<"b","a","n","a","n">>>>

\* product_types of extract_features, in insertion order: <<label, keywords>>.
ProductTypes ==
  << <<<<"l","e","t","t","m","e","l","k">>, <<<<"l","e","t","t","m","e","l","k">>, <<"l","e","t","t"," ","m","e","l","k">>>> >>,
     <<<<"h","e","l","m","e","l","k">>, <<<<"h","e","l","m","e","l","k">>, <<"h","e","l"," ","m","e","l","k">>>> >>,
     <<<<"s","k","u","m","m","e","t">>, <<<<"s","k","u","m","m","e","t">>, <<"s","k","u","m","m","a">>>> >>,
     <<<<"k","e","f","i","r">>, <<<<"k","e","f","i","r">>>> >>,
     <<<<"k","u","l","t","u","r","m","e","l","k">>, <<<<"k","u","l","t","u","r","m","e","l","k">>, <<"k","u","l","t","u","r","m","j","ø","l","k">>>> >>,
     <<<<"e","k","s","t","r","a"," ","l","e","t","t">>, <<<<"e","k","s","t","r","a"," ","l","e","t","t">>, <<"e","x","t","r","a"," ","l","e","t","t">>>> >> >>

\* FirstEntry taking the last entry of the table that matches instead.
FirstEntry_last(table, text) ==
  With({k \in 1..Len(table) : AnyIn(table[k][2], text)}, LAMBDA M :
    IF M = {} THEN 0 ELSE CHOOSE m \in M : \A q \in M : m >= q)

\* The index of the first entry of an ordered <<label, keywords>> table one
\* of whose keywords occurs in text, or 0.
FirstEntry(table, text) ==
  With({k \in 1..Len(table) : AnyIn(table[k][2], text)}, LAMBDA M :
    IF M = {} THEN 0 ELSE Min(M))

Oda_extract_features(name, info) ==
  With(Lower(Join2(name, info)), LAMBDA combined :
    With(FirstIn(Flavors, combined), LAMBDA f :
      With(FirstEntry(ProductTypes, combined), LAMBDA ty :
        DictUpdate(
          IF f = 0 THEN EmptyMap ELSE [flavor |-> Str(Capitalize(Flavors[f]))],
          IF ty = 0 THEN EmptyMap
          ELSE [product_type |-> Str(Capitalize(ProductTypes[ty][1]))]))))

(***************************************************************************)
(* BaseProcessor.clean_text                                                *)
(***************************************************************************)
\* text is a Python value: None and the empty string give "".
clean_text(text) ==
  IF text.t # "str" \/ Len(text.s) = 0 THEN <<>>
  ELSE With(CollapseWhitespace(text.s), LAMBDA collapsed :
         With(Strip(collapsed), LAMBDA stripped :
           With(ReplaceChar(stripped, ";", ","), LAMBDA commas :
             RemoveChars(commas, {"\"", "'"}))))

(***************************************************************************)
(* Subcategory classifier and brand resolver.                              *)
(***************************************************************************)
\* any(keyword.lower() in text for keyword in keywords)
AnyLowerIn(keywords, text) ==
  \E j \in 1..Len(keywords) : Contains(text, Lower(keywords[j]))

\* FirstSubcategory with the bug of letting the last matching entry win.
FirstSubcategory_last(mapping, text) ==
  With({k \in 1..Len(mapping) : AnyLowerIn(mapping[k][2], text)}, LAMBDA M :
    IF M = {} THEN 0 ELSE CHOOSE k \in M : \A j \in M : j <= k)

\* The index of the first entry of the mapping, in insertion order, one of
\* whose keywords occurs in text, or 0.
FirstSubcategory(mapping, text) ==
  With({k \in 1..Len(mapping) : AnyLowerIn(mapping[k][2], text)}, LAMBDA M :
    IF M = {} THEN 0 ELSE Min(M))

Oda_determine_subcategory(name, info) ==
  With(Lower(Join2(name, info)), LAMBDA text :
    With(FirstSubcategory(SUBCATEGORY_MAPPING, text), LAMBDA k :
      IF k # 0 THEN Str(SUBCATEGORY_MAPPING[k][1]) ELSE Str(<<"o","t","h","e","r">>)))

\* Stage 1 of extract_brand: the index of the first key of the table, in
\* insertion order, that occurs in text; 0 when none does.
FirstBrandKey(brands, text) ==
  With({k \in 1..Len(brands) : Contains(text, Lower(brands[k][1]))}, LAMBDA M :
    IF M = {} THEN 0 ELSE Min(M))

\* Stage 3 keeps the text after the last comma when it is shorter than this.
MaxLastPartLen == 20

\* Stages 2 to 4 of extract_brand, which read info alone. parts holds the
\* stripped comma-separated parts of info; U the indices of those that are
\* upper case and longer than one character.
BrandFromInfo(info) ==
  With(Split(info, ","), LAMBDA raw :
    With(Tup([k \in 1..Len(raw) |-> Strip(raw[k])]), LAMBDA parts :
      With({k \in 1..Len(parts) : IsUpper(parts[k]) /\ Len(parts[k]) > 1}, LAMBDA U :
        IF U # {} THEN Str(parts[Min(U)])
        ELSE IF Len(parts) > 1 /\ Len(parts[Len(parts)]) < MaxLastPartLen
        THEN Str(parts[Len(parts)])
        ELSE None)))

\* Oda_extract_brand with the stages in the wrong order: the segments of
\* info are tried before the brand table.
Oda_extract_brand_info_first(info, name) ==
  With(BrandFromInfo(info), LAMBDA b :
    IF b # None THEN b
    ELSE With(FirstBrandKey(BRANDS, Lower(Join2(info, name))), LAMBDA k :
           IF k # 0 THEN Str(BRANDS[k][2]) ELSE None))

Oda_extract_brand(info, name) ==
  With(Lower(Join2(info, name)), LAMBDA text :
    With(FirstBrandKey(BRANDS, text), LAMBDA k :
      IF k # 0 THEN Str(BRANDS[k][2]) ELSE BrandFromInfo(info)))

(***************************************************************************)
(* Products and process_product.                                           *)
(* A product is [name, info, brand, subcategory, attributes]; the other    *)
(* fields of models.product.Product are not read by the processors.        *)
(* process_product mutates the product it is given. A call is a frame      *)
(* [product, clean_name, clean_info, line, status]: the object as it is    *)
(* now, the two locals, the position in the method's statement list and    *)
(* "running", "returned" or "raised". Each statement of the method is one  *)
(* step of its frame.                                                      *)
(***************************************************************************)
Product(name, info, brand, subcategory, attributes) ==
  [name |-> name, info |-> info, brand |-> brand, subcategory |-> subcategory,
   attributes |-> attributes]

Frame(product) ==
  [product |-> product, clean_name |-> <<>>, clean_info |-> <<>>, line |-> 1,
   status |-> "running"]

\* InfoMissing with the bug of testing "product.info is None" only.
InfoMissing_none_only(product) == product.info = None

\* if not product.info
InfoMissing(product) == ~Truthy(product.info)

\* BrandMissing with the bug of extracting the brand unconditionally.
BrandMissing_always(product) == TRUE

\* if not product.brand
BrandMissing(product) == ~Truthy(product.brand)

\* if not product.subcategory
SubcategoryMissing(product) == ~Truthy(product.subcategory)

\* product.attributes.update(u): AttributeError when attributes is not a dict.
AttributesUpdate(f, u) ==
  IF f.product.attributes.t # "dict"
  THEN [f EXCEPT !.status = "raised"]
  ELSE [f EXCEPT !.product.attributes = Dict(DictUpdate(f.product.attributes.d, u)),
                 !.line = f.line + 1]

\* Oda_program with the subcategory-specific stage placed before the
\* subcategory is determined.
Oda_program_subcategory_late ==
  <<"skip_if_no_info", "clean", "brand", "by_subcategory", "size", "fat_content",
    "multipack", "dietary", "features", "subcategory", "return">>

\* The statements of OdaProcessor.process_product in program order.
Oda_program ==
  <<"skip_if_no_info", "clean", "brand", "subcategory", "size", "fat_content",
    "multipack", "dietary", "features", "by_subcategory", "return">>

\* One statement of OdaProcessor.process_product on the frame f.
Oda_statement(f) ==
  LET stmt == Oda_program[f.line] IN
  CASE stmt = "skip_if_no_info" ->  \* if not product.info: return product
         IF InfoMissing(f.product) THEN [f EXCEPT !.status = "returned"]
         ELSE [f EXCEPT !.line = f.line + 1]
    [] stmt = "clean" ->            \* clean_name, clean_info = clean_text(...)
         [f EXCEPT !.clean_name = clean_text(f.product.name),
                   !.clean_info = clean_text(f.product.info),
                   !.line = f.line + 1]
    [] stmt = "brand" ->            \* if not product.brand: product.brand = extract_brand(...)
         IF BrandMissing(f.product)
         THEN [f EXCEPT !.product.brand = Oda_extract_brand(f.clean_info, f.clean_name),
                        !.line = f.line + 1]
         ELSE [f EXCEPT !.line = f.line + 1]
    [] stmt = "subcategory" ->      \* if not product.subcategory: product.subcategory = ...
         IF SubcategoryMissing(f.product)
         THEN [f EXCEPT !.product.subcategory =
                          Oda_determine_subcategory(f.clean_name, f.clean_info),
                        !.line = f.line + 1]
         ELSE [f EXCEPT !.line = f.line + 1]
    [] stmt = "size" ->             \* product.attributes.update(extract_size(clean_info))
         AttributesUpdate(f, Oda_extract_size(f.clean_info))
    [] stmt = "fat_content" ->      \* if fat_content is not None: attributes["fat_content"] = ...
         With(Oda_extract_fat_content(f.clean_info), LAMBDA fat_content :
           IF fat_content # None
           THEN AttributesUpdate(f, [fat_content |-> fat_content])
           ELSE [f EXCEPT !.line = f.line + 1])
    [] stmt = "multipack" ->        \* product.attributes.update(extract_multipack_info(...))
         AttributesUpdate(f, Oda_extract_multipack_info(f.clean_info))
    [] stmt = "dietary" ->          \* product.attributes.update(extract_dietary_info(...))
         AttributesUpdate(f, Oda_extract_dietary_info(f.clean_info))
    [] stmt = "features" ->         \* product.attributes.update(extract_features(...))
         AttributesUpdate(f, Oda_extract_features(f.clean_name, f.clean_info))
    [] stmt = "by_subcategory" ->   \* if subcategory == "egg": ... elif subcategory == "ost": ...
         IF f.product.subcategory = Str(<<"e","g","g">>)
         THEN AttributesUpdate(f, Oda_extract_egg_info(f.clean_info))
         ELSE IF f.product.subcategory = Str(<<"o","s","t">>)
         THEN AttributesUpdate(f, Oda_extract_cheese_info(f.clean_info))
         ELSE [f EXCEPT !.line = f.line + 1]
    [] OTHER ->                     \* return product
         [f EXCEPT !.status = "returned"]

\* The frame when the call has returned or raised.
RECURSIVE Oda_run(_)
Oda_run(frame) ==
  With(frame, LAMBDA f :
    IF f.status = "running" THEN Oda_run(Oda_statement(f)) ELSE f)

\* process_product(product): the state of the object after the call, and
\* whether the call raised.
Oda_process_product(product) ==
  With(Oda_run(Frame(product)), LAMBDA f :
    [product |-> f.product, raised |-> f.status = "raised"])

(***************************************************************************)
(* MenyProcessor. Its rule tables and extraction methods are copies of     *)
(* OdaProcessor's; it has no cheese, dietary or feature stage, and it      *)
(* keeps the brand of the product being processed in the instance field    *)
(* _current_brand, which extract_brand reads.                              *)
(***************************************************************************)
Meny_extract_size(info) ==
  With(Lower(info), LAMBDA ls :
    LET at(i) == SizeAt(info, ls, i).ok IN
    With(Leftmost(info, at), LAMBDA i :
      IF i = NoMatch THEN [size_quantity |-> None, size_unit |-> None]
      ELSE With(SizeAt(info, ls, i), LAMBDA size_match :
             [size_quantity |-> ParseFloat(size_match.num),
              size_unit |-> Str(Lower(size_match.unit))])))

Meny_extract_fat_content(info) ==
  LET at(i) == PercentAt(info, i).ok IN
  With(Leftmost(info, at), LAMBDA i :
    IF i = NoMatch THEN None ELSE ParseFloat(PercentAt(info, i).num))

Meny_extract_multipack_info(info) ==
  With(Lower(info), LAMBDA ls :
    LET at(i) == MultipackAt(info, ls, i).ok IN
    With(Leftmost(info, at), LAMBDA i :
      IF i # NoMatch
      THEN With(MultipackAt(info, ls, i), LAMBDA multipack_match :
             [pack_quantity |-> IntV(ParseInt(multipack_match.count)),
              unit_size |-> ParseFloat(multipack_match.num),
              unit_size_unit |-> Str(Lower(multipack_match.unit))])
      ELSE [pack_quantity |-> SearchCount(PackWords, info),
            unit_size |-> None,
            unit_size_unit |-> None]))

Meny_extract_egg_info(info) ==
  With(Lower(info), LAMBDA ls :
    LET at(i) == EggSizeAt(info, ls, i).ok IN
    With(Leftmost(info, at), LAMBDA i :
      [egg_size |->
         IF i = NoMatch THEN None ELSE Str(Upper(EggSizeAt(info, ls, i).size)),
       egg_quantity |-> SearchCount(EggQuantityWords, info),
       egg_type |-> EggType(ls)]))

Meny_determine_subcategory(name, info) ==
  With(Lower(Join2(name, info)), LAMBDA text :
    With(FirstSubcategory(Meny_SUBCATEGORY_MAPPING, text), LAMBDA k :
      IF k # 0 THEN Str(Meny_SUBCATEGORY_MAPPING[k][1]) ELSE Str(<<"o","t","h","e","r">>)))
\* self is the processor instance, [current_brand]: the field _current_brand,
\* None while unset (it is read with getattr(self, "_current_brand", None)).
\* A freshly constructed processor: __init__ sets no _current_brand.
FreshSelf == [current_brand |-> None]

\* extract_brand below its first two lines: the three stages on the text.
Meny_brand_from_text(info, name) ==
  With(Lower(Join2(info, name)), LAMBDA text :
    With(FirstBrandKey(Meny_BRANDS, text), LAMBDA k :
      IF k # 0 THEN Str(Meny_BRANDS[k][2]) ELSE BrandFromInfo(info)))

\* extract_brand(info, name) called on the instance self, run without
\* interruption.
Meny_extract_brand(self, info, name) ==
  IF Truthy(self.current_brand) THEN self.current_brand
  ELSE Meny_brand_from_text(info, name)

\* Meny_program with self._current_brand stored at the end of the call, so
\* that the brand stage reads the value an earlier call left.
Meny_program_brand_saved_late ==
  <<"skip_if_no_info", "clean", "brand", "brand_return", "subcategory", "size",
    "fat_content", "multipack", "by_subcategory", "save_brand", "return">>

\* The statements of MenyProcessor.process_product in program order. The
\* call of extract_brand is two statements, because it reads the instance
\* field twice: the test of getattr(self, "_current_brand", None) ("brand")
\* and "return self._current_brand" ("brand_return").
Meny_program ==
  <<"skip_if_no_info", "save_brand", "clean", "brand", "brand_return",
    "subcategory", "size", "fat_content", "multipack", "by_subcategory", "return">>

\* One statement of MenyProcessor.process_product on the pair [self, frame]
\* of the instance and the call's frame.
Meny_statement(st) ==
  LET f == st.frame
      stmt == Meny_program[st.frame.line]
  IN
  CASE stmt = "skip_if_no_info" ->  \* if not product.info: return product
         IF InfoMissing(f.product) THEN [st EXCEPT !.frame.status = "returned"]
         ELSE [st EXCEPT !.frame.line = f.line + 1]
    [] stmt = "save_brand" ->       \* self._current_brand = product.brand
         [st EXCEPT !.self.current_brand = f.product.brand,
                    !.frame.line = f.line + 1]
    [] stmt = "clean" ->            \* clean_name, clean_info = clean_text(...)
         [st EXCEPT !.frame.clean_name = clean_text(f.product.name),
                    !.frame.clean_info = clean_text(f.product.info),
                    !.frame.line = f.line + 1]
    [] stmt = "brand" ->            \* if not product.brand: enter extract_brand, test the field
         IF ~BrandMissing(f.product) THEN [st EXCEPT !.frame.line = f.line + 2]
         ELSE IF Truthy(st.self.current_brand) THEN [st EXCEPT !.frame.line = f.line + 1]
         ELSE [st EXCEPT !.frame.product.brand =
                           Meny_brand_from_text(f.clean_info, f.clean_name),
                         !.frame.line = f.line + 2]
    [] stmt = "brand_return" ->     \* return self._current_brand; product.brand = that value
         [st EXCEPT !.frame.product.brand = st.self.current_brand,
                    !.frame.line = f.line + 1]
    [] stmt = "subcategory" ->      \* if not product.subcategory: product.subcategory = ...
         IF SubcategoryMissing(f.product)
         THEN [st EXCEPT !.frame.product.subcategory =
                           Meny_determine_subcategory(f.clean_name, f.clean_info),
                         !.frame.line = f.line + 1]
         ELSE [st EXCEPT !.frame.line = f.line + 1]
    [] stmt = "size" ->             \* product.attributes.update(extract_size(clean_info))
         [st EXCEPT !.frame = AttributesUpdate(f, Meny_extract_size(f.clean_info))]
    [] stmt = "fat_content" ->      \* if fat_content is not None: attributes["fat_content"] = ...
         With(Meny_extract_fat_content(f.clean_info), LAMBDA fat_content :
           IF fat_content # None
           THEN [st EXCEPT !.frame = AttributesUpdate(f, [fat_content |-> fat_content])]
           ELSE [st EXCEPT !.frame.line = f.line + 1])
    [] stmt = "multipack" ->        \* product.attributes.update(extract_multipack_info(...))
         [st EXCEPT !.frame = AttributesUpdate(f, Meny_extract_multipack_info(f.clean_info))]
    [] stmt = "by_subcategory" ->   \* if product.subcategory == "egg": update(extract_egg_info(...))
         IF f.product.subcategory = Str(<<"e","g","g">>)
         THEN [st EXCEPT !.frame = AttributesUpdate(f, Meny_extract_egg_info(f.clean_info))]
         ELSE [st EXCEPT !.frame.line = f.line + 1]
    [] OTHER ->                     \* return product
         [st EXCEPT !.frame.status = "returned"]

\* The pair when the call has returned or raised, no other call interleaved.
RECURSIVE Meny_run(_)
Meny_run(state) ==
  With(state, LAMBDA st :
    IF st.frame.status = "running" THEN Meny_run(Meny_statement(st)) ELSE st)

\* process_product(product) on the instance self: the instance and the
\* object after the call, and whether the call raised.
Meny_process_product(self, product) ==
  With(Meny_run([self |-> self, frame |-> Frame(product)]), LAMBDA st :
    [self |-> st.self, product |-> st.frame.product,
     raised |-> st.frame.status = "raised"])

(***************************************************************************)
(* State.                                                                  *)
(***************************************************************************)
VARIABLES
  variant,            \* class of the processor instance: "oda" or "meny"
  self,               \* the processor instance: [current_brand]
  products,           \* the product objects of the current call, mutated in place
  snapshot,           \* history: the fields of those objects when the call began
  processed_products, \* the list process_products builds: references (indices
                      \* into products) in the order they were appended
  errors,             \* the indices logged by logger.error, in order
  index,              \* the number of items the for loop has consumed
  pc,                 \* "idle", "loop" (inside process_products), "done", ...
  rerun,              \* history: the call was given objects that were processed before
  threads,            \* concurrent process_product calls: the frame of each thread
  call                \* history of a direct call: the instance before it, its arguments

vars ==
  <<variant, self, products, snapshot, processed_products, errors, index, pc,
    rerun, threads, call>>

Variants == {"oda", "meny"}

\* process_product of the instance's class, as [self, product, raised].
ProcessProduct(v, s, product) ==
  IF v = "oda"
  THEN With(Oda_process_product(product), LAMBDA r :
         [self |-> s, product |-> r.product, raised |-> r.raised])
  ELSE Meny_process_product(s, product)

NoCall == [fn |-> "none"]

\* The brand, subcategory and attribute map of a product.
Resolved(product) ==
  <<product.brand, product.subcategory, product.attributes>>

(***************************************************************************)
(* Inputs of the batch specification.                                      *)
(***************************************************************************)
T_Melk == <<"M","e","l","k">>
T_Egg == <<"E","g","g"," ","1","2"," ","s","t","k">>
T_Kavli == <<"K","a","v","l","i">>
T_TINE == <<"T","I","N","E">>
T_egg == <<"e","g","g">>
T_ost == <<"o","s","t">>
T_InfoTine == <<"1",",","7","5"," ","l",","," ","T","I","N","E">>
T_InfoTrailing == <<"4","x","1","2","5","g",","," ","a","b","c",",">>
T_InfoEgg == <<"s","t","r","."," ","M",";"," ","f","r","i","t","t","g","å","e","n","d","e">>

\* Attributes already on a product before processing.
PriorAttributes == [size_quantity |-> FloatV(2, 0), origin |-> Str(<<"N","o","r","g","e">>)]

\* The products a batch is drawn from: a plain product whose text names a
\* dictionary brand; one with caller-supplied brand and subcategory; one
\* whose attribute field is None, so that every update of it raises; one
\* without info; one whose brand resolves to the empty trailing part; an egg
\* product with attributes already present.
BatchProducts ==
  { Product(Str(T_Melk), Str(T_InfoTine), None, None, Dict(EmptyMap)),
    Product(Str(T_Melk), Str(T_InfoTine), Str(T_Kavli), Str(T_ost), Dict(EmptyMap)),
    Product(Str(T_Melk), Str(T_InfoTine), None, None, None),
    Product(Str(T_Melk), Str(<<>>), None, None, Dict(EmptyMap)),
    Product(Str(T_Melk), Str(T_InfoTrailing), None, None, Dict(EmptyMap)),
    Product(Str(T_Egg), Str(T_InfoEgg), None, None, Dict(PriorAttributes)) }

\* The longest list given to process_products.
MaxBatch == 2

\* The lists over S of length at most n.
RECURSIVE ListsOf(_, _)
ListsOf(S, n) ==
  IF n = 0 THEN {<<>>}
  ELSE With(ListsOf(S, n - 1), LAMBDA shorter :
         shorter \cup {Append(l, x) : l \in {m \in shorter : Len(m) = n - 1}, x \in S})

Batches == ListsOf(BatchProducts, MaxBatch)

(***************************************************************************)
(* BaseProcessor.process_products, one action per step of the call.        *)
(***************************************************************************)
Init ==
  /\ variant \in Variants
  /\ self = FreshSelf
  /\ products = <<>>
  /\ snapshot = <<>>
  /\ processed_products = <<>>
  /\ errors = <<>>
  /\ index = 0
  /\ pc = "idle"
  /\ rerun = FALSE
  /\ threads = <<>>
  /\ call = NoCall

\* process_products(products) is called with a list of raw products.
process_products_begin ==
  /\ pc \in {"idle", "done"}
  /\ \E list \in Batches :
       /\ products' = list
       /\ snapshot' = list
  /\ processed_products' = <<>>
  /\ errors' = <<>>
  /\ index' = 0
  /\ pc' = "loop"
  /\ rerun' = FALSE
  /\ UNCHANGED <<variant, self, threads, call>>

\* process_products is called again with the objects of the call that returned.
process_products_again ==
  /\ pc = "done"
  /\ snapshot' = products
  /\ processed_products' = <<>>
  /\ errors' = <<>>
  /\ index' = 0
  /\ pc' = "loop"
  /\ rerun' = TRUE
  /\ UNCHANGED <<variant, self, products, threads, call>>

\* Retained with the bug of dropping the item in the except branch.
Retained_dropped(out, i) == out

\* except: processed_products.append(product) -- the product is kept.
Retained(out, i) == Append(out, i)

\* NextIndex with the bug of leaving the loop at the first exception.
NextIndex_abort(i, n, raised) == IF raised THEN n ELSE i + 1

\* The for loop moves on to the next item whether or not the item raised:
\* the try/except is inside the loop body. n is the length of the list.
NextIndex(i, n, raised) == i + 1

\* One iteration of the for loop: try process_product(product) and append
\* what it returns (the object it was given); on an exception log it and
\* append the product.
process_products_iteration ==
  /\ pc = "loop"
  /\ index < Len(products)
  /\ \E r \in {ProcessProduct(variant, self, products[index + 1])} :
       /\ self' = r.self
       /\ products' = [products EXCEPT ![index + 1] = r.product]
       /\ processed_products' =
            IF r.raised THEN Retained(processed_products, index + 1)
            ELSE Append(processed_products, index + 1)
       /\ errors' = IF r.raised THEN Append(errors, index + 1) ELSE errors
       /\ index' = NextIndex(index, Len(products), r.raised)
  /\ UNCHANGED <<variant, snapshot, pc, rerun, threads, call>>

\* The loop is exhausted: return processed_products.
process_products_return ==
  /\ pc = "loop"
  /\ index >= Len(products)
  /\ pc' = "done"
  /\ UNCHANGED <<variant, self, products, snapshot, processed_products, errors,
                 index, rerun, threads, call>>

Next ==
  \/ process_products_begin
  \/ process_products_again
  \/ process_products_iteration
  \/ process_products_return

Spec == Init /\ [][Next]_vars

\* The indices at which process_product raised in the current call.
Failed == {errors[k] : k \in 1..Len(errors)}

(***************************************************************************)
(* Direct calls of process_product on one processor instance               *)
(* (specification SpecProduct): any product of ProductDomain, on an        *)
(* instance with any history of earlier calls, and the same object again.  *)
(***************************************************************************)
ProductNames == {Str(T_Melk), Str(T_Egg), None}

T_InfoPlain == <<"f","e","r","s","k"," ","v","a","r","e">>
T_InfoFat == <<"3",",","5","%"," ","f","e","t","t"," "," ","l","e","t","t",","," ","6"," ","p","k">>
T_InfoCheese == <<"s","k","i","v","e","t"," ","6"," ","m","n","d"," ","c","h","e","d","d","a","r"," ","o","s","t">>
T_InfoYoghurt == <<"G","o","'","m","o","r","g","e","n"," ","y","o","g","h","u","r","t"," ","j","o","r","d","b","æ","r">>
T_InfoDiet == <<"l","a","k","t","o","s","e","f","r","i"," ","Ø","k","o","l","o","g","i","s","k">>
T_InfoCount == <<"1","2"," ","s","t","k">>
T_InfoUpper == <<"K","O","L","O","N","I","H","A","G","E","N",","," ","5","0","0"," ","g">>
T_InfoLong == <<"b","æ","r",","," ","f","r","a"," ","e","n"," ","v","e","l","d","i","g"," ","l","a","n","g"," ","b","e","s","k","r","i","v","e","l","s","e">>

\* info is absent (None), empty, or one of the texts.
ProductInfos ==
  {None, Str(<<>>), Str(T_InfoTine), Str(T_InfoTrailing), Str(T_InfoEgg),
   Str(T_InfoPlain), Str(T_InfoFat), Str(T_InfoCheese), Str(T_InfoYoghurt),
   Str(T_InfoDiet), Str(T_InfoCount), Str(T_InfoUpper), Str(T_InfoLong),
   Str(<<"G","o","'","d","a","g"," ","4","x","1","2","5","g">>)}

\* What the caller supplies besides the text: <<brand, subcategory, attributes>>.
ProductProfiles ==
  { <<None, None, Dict(EmptyMap)>>,
    <<Str(T_Kavli), Str(T_ost), Dict(EmptyMap)>>,
    <<None, Str(T_egg), Dict(PriorAttributes)>>,
    <<Str(<<>>), Str(<<>>), Dict(EmptyMap)>>,
    <<None, None, None>>,
    <<Str(T_Kavli), None, None>> }

ProductDomain ==
  { Product(n, i, c[1], c[2], c[3]) :
      n \in ProductNames, i \in ProductInfos, c \in ProductProfiles }

\* The caller builds a Product and holds it for the next call.
Product_new ==
  /\ pc \in {"idle", "called"}
  /\ \E p \in ProductDomain :
       /\ products' = <<p>>
       /\ snapshot' = <<p>>
       /\ call' = [fn |-> "process_product", self_before |-> self, raw |-> p]
  /\ pc' = "supplied"
  /\ rerun' = FALSE
  /\ errors' = <<>>
  /\ UNCHANGED <<variant, self, processed_products, index, threads>>

\* process_product(product) is called on the instance with that product.
process_product_call ==
  /\ pc = "supplied"
  /\ \E r \in {ProcessProduct(variant, self, products[1])} :
       /\ self' = r.self
       /\ products' = <<r.product>>
       /\ errors' = IF r.raised THEN <<1>> ELSE <<>>
  /\ pc' = "called"
  /\ UNCHANGED <<variant, snapshot, processed_products, index, rerun, threads, call>>

\* process_product is called again on the object the last call was given.
process_product_again ==
  /\ pc = "called"
  /\ \E r \in {ProcessProduct(variant, self, products[1])} :
       /\ self' = r.self
       /\ products' = <<r.product>>
       /\ errors' = IF r.raised THEN <<1>> ELSE <<>>
  /\ snapshot' = products
  /\ call' = [call EXCEPT !.self_before = self]
  /\ rerun' = TRUE
  /\ UNCHANGED <<variant, processed_products, index, pc, threads>>

\* After the calls of process_product, extract_brand(info, name) is called
\* directly on the same MenyProcessor instance.
extract_brand_direct ==
  /\ pc = "called"
  /\ variant = "meny"
  /\ \E a \in {<<T_InfoTine, <<>>>>, <<T_InfoPlain, T_Melk>>} :
     \E r \in {Meny_extract_brand(self, a[1], a[2])} :
       call' = [fn |-> "extract_brand", self_before |-> self, raw |-> call.raw,
                info |-> a[1], name |-> a[2], result |-> r]
  /\ pc' = "brand_called"
  /\ UNCHANGED <<variant, self, products, snapshot, processed_products, errors,
                 index, rerun, threads>>

NextProduct ==
  \/ Product_new
  \/ process_product_call
  \/ process_product_again
  \/ extract_brand_direct

SpecProduct == Init /\ [][NextProduct]_vars

(***************************************************************************)
(* Two concurrent process_product calls on one shared instance             *)
(* (specification SpecPar): each thread executes the statements of its     *)
(* call in program order, and the threads interleave at statement          *)
(* boundaries. The instance field is shared, the products are not.         *)
(***************************************************************************)
\* One statement of process_product of the instance's class, by the call
\* whose frame is f, on the shared instance s.
ThreadStatement(v, s, f) ==
  IF v = "oda"
  THEN [self |-> s, frame |-> Oda_statement(f)]
  ELSE Meny_statement([self |-> s, frame |-> f])

\* Two threads are started, each with process_product(p) for its own product.
threads_start ==
  /\ pc = "idle"
  /\ \E p1 \in BatchProducts, p2 \in BatchProducts :
       /\ threads' = <<Frame(p1), Frame(p2)>>
       /\ products' = <<p1, p2>>
       /\ snapshot' = <<p1, p2>>
  /\ pc' = "running"
  /\ call' = [fn |-> "threads"]
  /\ UNCHANGED <<variant, self, processed_products, errors, index, rerun>>

\* Thread t executes the next statement of its call.
thread_step(t) ==
  /\ pc = "running"
  /\ threads[t].status = "running"
  /\ \E st \in {ThreadStatement(variant, self, threads[t])} :
       /\ self' = st.self
       /\ threads' = [threads EXCEPT ![t] = st.frame]
       /\ products' = [products EXCEPT ![t] = st.frame.product]
  /\ UNCHANGED <<variant, snapshot, processed_products, errors, index, pc, rerun, call>>

\* Both calls have returned or raised and the threads are joined.
threads_join ==
  /\ pc = "running"
  /\ \A t \in 1..Len(threads) : threads[t].status # "running"
  /\ pc' = "joined"
  /\ errors' = SelectSeq(<<1, 2>>, LAMBDA t : threads[t].status = "raised")
  /\ UNCHANGED <<variant, self, products, snapshot, processed_products, index,
                 rerun, threads, call>>

NextPar ==
  \/ threads_start
  \/ \E t \in {1, 2} : thread_step(t)
  \/ threads_join

SpecPar == Init /\ [][NextPar]_vars

(***************************************************************************)
(* Direct calls of OdaProcessor.extract_brand (specification SpecBrand).   *)
(* The info argument is put together from at most MaxParts fragments: a    *)
(* dictionary key, upper-case and lower-case tokens (two of them of        *)
(* letters with a diaeresis), the separators, and a 19-character token     *)
(* that reaches the length limit of the trailing part with one more        *)
(* letter.                                                                 *)
(***************************************************************************)
T_Tine == <<"T","i","n","e">>
T_Z19 == <<"z","z","z","z","z","z","z","z","z","z","z","z","z","z","z","z","z","z","z">>

InfoFragments == {<<"q">>, <<"Ä", "Ö">>, <<"A">>, <<"ü">>, <<",">>, <<" ">>, T_Z19}

\* The name arguments: none, one with the key "tine", and one with the
\* overlapping keys "synnøve" and "synnøve finden".
BrandNames ==
  {<<>>, T_Tine,
   <<"S","y","n","n","ø","v","e"," ","F","i","n","d","e","n">>}

\* The largest number of fragments in an info argument.
MaxParts == 4

\* The caller picks the name argument and starts with an empty info.
extract_brand_arguments ==
  /\ pc = "idle"
  /\ variant = "oda"
  /\ \E n \in BrandNames :
       call' = [fn |-> "extract_brand", info |-> <<>>, name |-> n, parts |-> 0,
                result |-> None]
  /\ pc' = "arguments"
  /\ UNCHANGED <<variant, self, products, snapshot, processed_products, errors,
                 index, rerun, threads>>

\* The caller appends one fragment to the info argument.
extract_brand_info_part ==
  /\ pc = "arguments"
  /\ call.parts < MaxParts
  /\ \E x \in InfoFragments :
       call' = [call EXCEPT !.info = call.info \o x, !.parts = call.parts + 1]
  /\ UNCHANGED <<variant, self, products, snapshot, processed_products, errors,
                 index, pc, rerun, threads>>

\* extract_brand(info, name) is called and returns.
extract_brand_call ==
  /\ pc = "arguments"
  /\ \E r \in {Oda_extract_brand(call.info, call.name)} :
       call' = [call EXCEPT !.result = r]
  /\ pc' = "returned"
  /\ UNCHANGED <<variant, self, products, snapshot, processed_products, errors,
                 index, rerun, threads>>

NextBrand ==
  \/ extract_brand_arguments
  \/ extract_brand_info_part
  \/ extract_brand_call

SpecBrand == Init /\ [][NextBrand]_vars

(***************************************************************************)
(* Direct calls of the extraction methods on texts (specification          *)
(* SpecText). The caller picks the method, puts the info argument          *)
(* together from at most MaxTextParts fragments of that method's vocabulary    *)
(* and calls the method of the instance's class.                           *)
(***************************************************************************)
\* The fragments of the info argument, by method. The blank of "7.0 dl" is
\* the no-break space U+00A0.
TextFragments ==
  [ determine_subcategory |->
      { <<"m","e","l","k">>, <<"O","s","t">>, <<"e","g","g">>, <<"C","R","È","M","E"," ","F","R","A","Î","C","H","E">>, <<"k","e","s","a","m">>,
        <<"x">>, <<" ">> },
    extract_size |->
      { <<"1",",","5">>, <<"1","2",".","2","5">>, <<" ">>, <<"K","G">>, <<"m","l">>, <<"l">>,
        <<"g">>, <<"0",",","3","3"," ","c","L">>, <<" ","2",".","5"," ","S","t","k">>, <<"7",".","0"," ","d","l">> },
    extract_multipack_info |->
      { <<"4","x","1","2","5","g">>, <<"1","2","X","1",",","5"," ","L">>, <<"6"," ","s","t","k">>, <<"3","p","k">>,
        <<"1","0"," ","P","a","k","n","i","n","g">>, <<" ">>, <<"x">>, <<"2">>, <<"k","g">> },
    extract_fat_content |->
      { <<"1">>, <<"3",",","5">>, <<"0",".","5">>, <<"%">>, <<" ","f","e","t","t">>, <<" ">>,
        <<"7","%">>, <<"x">> },
    extract_egg_info |->
      { <<"f","r","i","l","a","n","d">>, <<"Ø","k","o","l","o","g","i","s","k">>, <<"F","R","I","T","T","G","Å","E","N","D","E">>,
        <<"f","r","i","t","t","g">>, <<"å","e","n","d","e">>, <<" ">>, <<"6"," ","s","t","k">> } ]

\* The largest number of fragments in the info argument of these calls.
MaxTextParts == 3

\* The caller picks the method and the name argument (only
\* determine_subcategory reads a name) and starts with an empty info.
text_arguments ==
  /\ pc = "idle"
  /\ \E fn \in DOMAIN TextFragments :
     \E n \in IF fn = "determine_subcategory"
              THEN {<<>>, <<"P","u","d","d","i","n","g">>} ELSE {<<>>} :
       call' = [fn |-> fn, info |-> <<>>, name |-> n, parts |-> 0, result |-> None]
  /\ pc' = "text"
  /\ UNCHANGED <<variant, self, products, snapshot, processed_products, errors,
                 index, rerun, threads>>

\* The caller appends one fragment to the info argument.
text_part ==
  /\ pc = "text"
  /\ call.parts < MaxTextParts
  /\ \E x \in TextFragments[call.fn] :
       call' = [call EXCEPT !.info = call.info \o x, !.parts = call.parts + 1]
  /\ UNCHANGED <<variant, self, products, snapshot, processed_products, errors,
                 index, pc, rerun, threads>>

\* determine_subcategory(name, info) is called and returns.
determine_subcategory_call ==
  /\ pc = "text"
  /\ call.fn = "determine_subcategory"
  /\ \E r \in {IF variant = "oda"
               THEN Oda_determine_subcategory(call.name, call.info)
               ELSE Meny_determine_subcategory(call.name, call.info)} :
       call' = [call EXCEPT !.result = r]
  /\ pc' = "result"
  /\ UNCHANGED <<variant, self, products, snapshot, processed_products, errors,
                 index, rerun, threads>>

\* extract_size(info) is called and returns.
extract_size_call ==
  /\ pc = "text"
  /\ call.fn = "extract_size"
  /\ \E r \in {IF variant = "oda" THEN Oda_extract_size(call.info)
               ELSE Meny_extract_size(call.info)} :
       call' = [call EXCEPT !.result = r]
  /\ pc' = "result"
  /\ UNCHANGED <<variant, self, products, snapshot, processed_products, errors,
                 index, rerun, threads>>

\* extract_multipack_info(info) is called and returns.
extract_multipack_info_call ==
  /\ pc = "text"
  /\ call.fn = "extract_multipack_info"
  /\ \E r \in {IF variant = "oda" THEN Oda_extract_multipack_info(call.info)
               ELSE Meny_extract_multipack_info(call.info)} :
       call' = [call EXCEPT !.result = r]
  /\ pc' = "result"
  /\ UNCHANGED <<variant, self, products, snapshot, processed_products, errors,
                 index, rerun, threads>>

\* extract_fat_content(info) is called and returns.
extract_fat_content_call ==
  /\ pc = "text"
  /\ call.fn = "extract_fat_content"
  /\ \E r \in {IF variant = "oda" THEN Oda_extract_fat_content(call.info)
               ELSE Meny_extract_fat_content(call.info)} :
       call' = [call EXCEPT !.result = r]
  /\ pc' = "result"
  /\ UNCHANGED <<variant, self, products, snapshot, processed_products, errors,
                 index, rerun, threads>>

\* extract_egg_info(info) is called and returns.
extract_egg_info_call ==
  /\ pc = "text"
  /\ call.fn = "extract_egg_info"
  /\ \E r \in {IF variant = "oda" THEN Oda_extract_egg_info(call.info)
               ELSE Meny_extract_egg_info(call.info)} :
       call' = [call EXCEPT !.result = r]
  /\ pc' = "result"
  /\ UNCHANGED <<variant, self, products, snapshot, processed_products, errors,
                 index, rerun, threads>>

\* A text of the fat-content or dietary vocabulary is the info of a new
\* product without brand, subcategory and attributes, and process_product is
\* called with it.
text_process_product ==
  /\ pc = "text"
  /\ call.fn \in {"extract_fat_content", "extract_dietary_info"}
  /\ \E p \in {Product(Str(call.name), Str(call.info), None, None, Dict(EmptyMap))} :
     \E r \in {ProcessProduct(variant, self, p)} :
       /\ self' = r.self
       /\ products' = <<r.product>>
       /\ snapshot' = <<p>>
       /\ errors' = IF r.raised THEN <<1>> ELSE <<>>
  /\ pc' = "processed"
  /\ UNCHANGED <<variant, processed_products, index, rerun, threads, call>>

NextText ==
  \/ text_arguments
  \/ text_part
  \/ determine_subcategory_call
  \/ extract_size_call
  \/ extract_multipack_info_call
  \/ extract_fat_content_call
  \/ extract_egg_info_call
  \/ text_process_product

SpecText == Init /\ [][NextText]_vars

(***************************************************************************)
(* Direct calls of the category and feature extractors and of clean_text   *)
(* (specification SpecDetail). The caller picks the method, puts the text  *)
(* argument together from at most MaxDetailParts fragments of that         *)
(* method's vocabulary and calls the method.                               *)
(***************************************************************************)
\* The fragments of the text argument, by method.
DetailFragments ==
  [ extract_egg_info |->
      { <<"s","t","r">>, <<".">>, <<"S","t","ø","r","r","e","l","s","e">>, <<" ">>, <<"X","L">>, <<"x","s">>, <<"m">>, <<"L">> },
    extract_cheese_info |->
      { <<"h","e","l"," ","C","h","e","d","d","a","r">>, <<"S","k","i","v","e","r"," ","b","l","å">>, <<"r","e","v","e","t">>, <<"b","r","i","e">>,
        <<"6"," ","m","n","d">>, <<"1","2"," ","M","Å","N","E","D">>, <<" ">> },
    extract_dietary_info |->
      { <<"L","a","k","t","o","s","e","f","r","i">>, <<"u","t","e","n">>, <<" ">>, <<"l","a","k","t","o","s","e">>,
        <<"G","l","u","t","e","n","f","r","i">>, <<"Ø","K","O">>, <<"v","e","g","a","n","s","k">>,
        <<"ø","k","o","l","o","g","i","s","k"," ","p","l","a","n","t","e","b","a","s","e","r","t">> },
    extract_features |->
      { <<"J","o","r","d","b","æ","r">>, <<"b","a","n","a","n">>, <<"m","e","l","k">>, <<"H","e","l","m","e","l","k">>, <<"s","k","u","m","m","a">>,
        <<" ">>, <<"E","K","S","T","R","A"," ","L","E","T","T">> },
    clean_text |->
      { <<"a">>, <<" ">>, <<"'">>, <<"\"">>, <<";">>, <<" ","b">>, <<"\r">> } ]

\* The largest number of fragments in the text argument of these calls.
MaxDetailParts == 3

\* The caller picks the method (extract_cheese_info, extract_dietary_info
\* and extract_features are methods of OdaProcessor only) and starts with an
\* empty text; only extract_features takes a name.
detail_arguments ==
  /\ pc = "idle"
  /\ \E fn \in DOMAIN DetailFragments :
       /\ fn \in {"extract_cheese_info", "extract_dietary_info", "extract_features"}
            => variant = "oda"
       /\ \E n \in IF fn = "extract_features"
                  THEN {<<>>, <<"B","a","n","a","n"," ","l","e","t","t">>} ELSE {<<>>} :
            call' = [fn |-> fn, info |-> <<>>, name |-> n, parts |-> 0,
                     result |-> None]
  /\ pc' = "text"
  /\ UNCHANGED <<variant, self, products, snapshot, processed_products, errors,
                 index, rerun, threads>>

\* The caller appends one fragment to the text argument.
detail_part ==
  /\ pc = "text"
  /\ call.parts < MaxDetailParts
  /\ \E x \in DetailFragments[call.fn] :
       call' = [call EXCEPT !.info = call.info \o x, !.parts = call.parts + 1]
  /\ UNCHANGED <<variant, self, products, snapshot, processed_products, errors,
                 index, pc, rerun, threads>>

\* extract_cheese_info(info) is called and returns.
extract_cheese_info_call ==
  /\ pc = "text"
  /\ call.fn = "extract_cheese_info"
  /\ \E r \in {Oda_extract_cheese_info(call.info)} :
       call' = [call EXCEPT !.result = r]
  /\ pc' = "result"
  /\ UNCHANGED <<variant, self, products, snapshot, processed_products, errors,
                 index, rerun, threads>>

\* extract_dietary_info(info) is called and returns.
extract_dietary_info_call ==
  /\ pc = "text"
  /\ call.fn = "extract_dietary_info"
  /\ \E r \in {Oda_extract_dietary_info(call.info)} :
       call' = [call EXCEPT !.result = r]
  /\ pc' = "result"
  /\ UNCHANGED <<variant, self, products, snapshot, processed_products, errors,
                 index, rerun, threads>>

\* extract_features(name, info) is called and returns.
extract_features_call ==
  /\ pc = "text"
  /\ call.fn = "extract_features"
  /\ \E r \in {Oda_extract_features(call.name, call.info)} :
       call' = [call EXCEPT !.result = r]
  /\ pc' = "result"
  /\ UNCHANGED <<variant, self, products, snapshot, processed_products, errors,
                 index, rerun, threads>>

\* clean_text(text) is called and returns: with the text put together, or,
\* before any fragment, with a value that is not a string.
clean_text_call ==
  /\ pc = "text"
  /\ call.fn = "clean_text"
  /\ \E text \in {Str(call.info)} \cup
                  (IF call.parts = 0 THEN {None, IntV(5)} ELSE {}) :
       call' = [call EXCEPT !.result =
                  [text |-> text, cleaned |-> Str(clean_text(text))]]
  /\ pc' = "result"
  /\ UNCHANGED <<variant, self, products, snapshot, processed_products, errors,
                 index, rerun, threads>>

NextDetail ==
  \/ detail_arguments
  \/ detail_part
  \/ extract_egg_info_call
  \/ extract_cheese_info_call
  \/ extract_dietary_info_call
  \/ extract_features_call
  \/ clean_text_call
  \/ text_process_product

SpecDetail == Init /\ [][NextDetail]_vars

(***************************************************************************)
(* Processors made by the factory (specification SpecFactory):             *)
(* get_processor(scraper_type) makes the instance and process_product is   *)
(* called on it with a product of ProductDomain.                           *)
(***************************************************************************)
\* The class of the instance get_processor returns: scraper_type is compared
\* lower-cased; for "meny" the function falls back to OdaProcessor; any
\* other type raises ValueError.
get_processor(scraper_type) ==
  IF Lower(scraper_type) = <<"o","d","a">> THEN "oda"
  ELSE IF Lower(scraper_type) = <<"m","e","n","y">> THEN "oda"
  ELSE "ValueError"

\* get_processor(scraper_type) is called; the instance it returns replaces
\* the one held so far.
get_processor_call ==
  /\ pc = "idle"
  /\ \E t \in { <<"o","d","a">>, <<"m","e","n","y">>, <<"M","e","n","y">>, <<"k","i","w","i">> } :
       \E made \in {get_processor(t)} :
         /\ variant' = IF made = "ValueError" THEN variant ELSE made
         /\ call' = [fn |-> "get_processor", scraper_type |-> t,
                     raised |-> made = "ValueError"]
  /\ self' = FreshSelf
  /\ pc' = "made"
  /\ UNCHANGED <<products, snapshot, processed_products, errors, index, rerun,
                 threads>>

\* process_product(p) is called on the instance the factory returned.
made_process_product ==
  /\ pc = "made"
  /\ ~call.raised
  /\ \E p \in ProductDomain :
       \E r \in {ProcessProduct(variant, self, p)} :
         /\ self' = r.self
         /\ products' = <<r.product>>
         /\ snapshot' = <<p>>
         /\ errors' = IF r.raised THEN <<1>> ELSE <<>>
  /\ pc' = "made_called"
  /\ UNCHANGED <<variant, processed_products, index, rerun, threads, call>>

NextFactory ==
  \/ get_processor_call
  \/ made_process_product

SpecFactory == Init /\ [][NextFactory]_vars

(***************************************************************************)
(* Claims about the batch loop (specification Spec).                       *)
(***************************************************************************)
\* C1: when process_products returns, the output list has exactly the
\* length of the input list and position i holds the item that was at
\* position i of the input (processed, or retained after a failure);
\* while the loop runs the output is the prefix of the items consumed.
C1_SameLengthSameOrder ==
  /\ Len(processed_products) <= Len(products)
  /\ pc = "done" => Len(processed_products) = Len(products)
  /\ \A i \in 1..Len(processed_products) :
       /\ processed_products[i] = i
       /\ products[i].name = snapshot[i].name
       /\ products[i].info = snapshot[i].info

C1_Witness ==
  /\ pc = "done"
  /\ Len(products) = MaxBatch
  /\ 1 \in Failed
  /\ MaxBatch \notin Failed
  /\ Len(processed_products) = MaxBatch

\* C2: an item on which process_product raised is, in the output, the
\* unmodified original: its brand, subcategory and attribute map are the
\* ones it had when the batch started.
C2_FailedItemUnmodified ==
  \A i \in Failed : Resolved(products[i]) = Resolved(snapshot[i])

\* C3: a failing item never stops the batch: when process_products returns,
\* every item on which process_product did not raise has been processed,
\* and is what process_product on a fresh processor makes of that item
\* alone, whichever items before or after it failed.
C3_OthersProcessedAsAlone ==
  pc = "done" =>
    \A i \in 1..Len(products) :
      i \notin Failed =>
        /\ \E k \in 1..Len(processed_products) : processed_products[k] = i
        /\ products[i] = ProcessProduct(variant, FreshSelf, snapshot[i]).product

C3_Witness ==
  /\ pc = "done"
  /\ ~rerun
  /\ Len(products) = MaxBatch
  /\ 1 \in Failed
  /\ MaxBatch \notin Failed
  /\ Resolved(products[MaxBatch]) # Resolved(snapshot[MaxBatch])

\* C16: input records are immutable: process_product and process_products
\* do not modify the product objects they are given; after a batch returns
\* every record of the input list has the brand, subcategory and attribute
\* map it had before the call.
C16_InputsNotModified ==
  pc = "done" =>
    \A i \in 1..Len(products) : Resolved(products[i]) = Resolved(snapshot[i])

(***************************************************************************)
(* Claims about process_product (specification SpecProduct).               *)
(***************************************************************************)
\* C4: process_product on a product whose info is empty or absent returns
\* the product unchanged -- brand, subcategory and attribute map as on
\* input, no key added or set to None -- and raises nothing, in both
\* variants.
C4_NoInfoUnchanged ==
  (pc = "called" /\ snapshot[1].info \in {None, Str(<<>>)}) =>
    /\ products[1] = snapshot[1]
    /\ errors = <<>>

C4_Witness ==
  /\ pc = "called"
  /\ ~rerun
  /\ variant = "meny"
  /\ snapshot[1].info = None
  /\ snapshot[1].name = Str(T_Egg)
  /\ snapshot[1].brand = None
  /\ snapshot[1].attributes = Dict(EmptyMap)

\* C5: a brand (resp. subcategory) supplied on the input product is never
\* overwritten: after process_product it equals the supplied value,
\* whatever the text contains.
C5_SuppliedKept ==
  pc = "called" =>
    /\ Truthy(snapshot[1].brand) => products[1].brand = snapshot[1].brand
    /\ Truthy(snapshot[1].subcategory) =>
         products[1].subcategory = snapshot[1].subcategory

C5_Witness ==
  /\ pc = "called"
  /\ ~rerun
  /\ snapshot[1].brand = Str(T_Kavli)
  /\ snapshot[1].subcategory = Str(T_ost)
  /\ snapshot[1].info = Str(T_InfoTine)
  /\ snapshot[1].name = Str(T_Egg)
  /\ products[1].attributes # snapshot[1].attributes

\* C6: extraction is idempotent: a second process_product on an already
\* processed product leaves the brand and subcategory of the first
\* application and an attribute map equal to the one it produced.
C6_Idempotent ==
  (pc = "called" /\ rerun) => Resolved(products[1]) = Resolved(snapshot[1])

C6_Witness ==
  /\ pc = "called"
  /\ rerun
  /\ call.raw.brand = None
  /\ call.raw.subcategory = None
  /\ call.raw.attributes = Dict(EmptyMap)
  /\ products[1].brand = Str(T_TINE)
  /\ products[1].subcategory = Str(T_egg)
  /\ products[1].attributes.d.egg_type = None

\* C7: extraction is deterministic and history-independent: whatever calls
\* the instance has served before, process_product leaves the product as a
\* freshly constructed processor of the same class would, and raises
\* exactly when that one would.
C7_HistoryIndependent ==
  pc = "called" =>
    \E fresh \in {ProcessProduct(variant, FreshSelf, snapshot[1])} :
      /\ products[1] = fresh.product
      /\ (errors # <<>>) = fresh.raised

C7_Witness ==
  /\ pc = "called"
  /\ variant = "meny"
  /\ call.self_before.current_brand = Str(T_Kavli)
  /\ snapshot[1].brand = None
  /\ products[1].brand = Str(T_TINE)

\* The keys listed by C9.
PatternKeys ==
  {"size_quantity", "size_unit", "pack_quantity", "unit_size", "unit_size_unit",
   "egg_size", "egg_quantity", "egg_type", "cheese_type", "aging", "preparation"}

\* The call ran its stages to the end: the product had info and nothing raised.
Extracted == pc = "called" /\ errors = <<>> /\ ~InfoMissing(snapshot[1])

\* C9 as claimed: after process_product none of the pattern keys is in the
\* attribute map with the value None.
C9_NoNullValue ==
  Extracted =>
    \A k \in PatternKeys \cap DOMAIN products[1].attributes.d :
      products[1].attributes.d[k] # None

\* The 18 keys of C18.
C18_Vocabulary ==
  {"size_quantity", "size_unit", "fat_content", "pack_quantity", "unit_size",
   "unit_size_unit", "egg_size", "egg_quantity", "egg_type", "cheese_type",
   "aging", "preparation", "lactose_free", "gluten_free", "organic", "vegan",
   "flavor", "product_type"}

\* The keys the last call added to the attribute map.
C18_Added == DOMAIN products[1].attributes.d \ DOMAIN snapshot[1].attributes.d

\* C18: every key that process_product adds to a product's attribute map,
\* in either variant and for every text, belongs to the 18-key vocabulary.
C18_AddedKeysInVocabulary ==
  (pc = "called" /\ products[1].attributes.t = "dict") =>
    C18_Added \subseteq C18_Vocabulary

\* A cheese product in OdaProcessor: the size, pack, dietary and cheese keys
\* are added, next to a key of the caller's that is not in the vocabulary.
C18_Witness ==
  /\ pc = "called"
  /\ ~rerun
  /\ variant = "oda"
  /\ snapshot[1].info = Str(T_InfoCheese)
  /\ snapshot[1].attributes = Dict(EmptyMap)
  /\ {"size_quantity", "pack_quantity", "organic", "cheese_type", "aging"}
       \subseteq C18_Added

\* C19: the category-specific stages are gated on the subcategory the
\* product holds after classification, classified or caller-supplied. For a
\* call that ran its stages (info present, nothing raised): egg_size,
\* egg_quantity and egg_type are written if and only if the subcategory is
\* "egg"; in OdaProcessor cheese_type, aging and preparation are written if
\* and only if it is "ost"; no call writes both groups.
C19_GatedOnSubcategory ==
  Extracted =>
    \E after \in {DOMAIN products[1].attributes.d} :
    \E egg \in {{"egg_size", "egg_quantity", "egg_type"}} :
    \E cheese \in {{"cheese_type", "aging", "preparation"}} :
      /\ IF products[1].subcategory = Str(T_egg)
         THEN egg \subseteq after
         ELSE egg \cap C18_Added = {}
      /\ variant = "oda" =>
           IF products[1].subcategory = Str(T_ost)
           THEN cheese \subseteq after
           ELSE cheese \cap C18_Added = {}
      /\ egg \cap C18_Added = {} \/ cheese \cap C18_Added = {}

\* The name speaks of egg and the text of cheese: classification resolves to
\* "ost", the cheese keys are written and no egg key is.
C19_Witness ==
  /\ Extracted
  /\ ~rerun
  /\ variant = "oda"
  /\ snapshot[1].name = Str(T_Egg)
  /\ snapshot[1].subcategory = None
  /\ snapshot[1].info = Str(T_InfoCheese)
  /\ products[1].subcategory = Str(T_ost)
  /\ {"cheese_type", "aging"} \subseteq C18_Added
  /\ {"egg_size", "egg_quantity", "egg_type"} \cap C18_Added = {}


\* C26: MenyProcessor.extract_brand(info, name) is a function of its two
\* arguments only. After any sequence of earlier process_product calls on the
\* same instance, a direct call returns the value a fresh instance returns
\* for the same info and name.
C26_BrandOfArgumentsOnly ==
  (pc = "brand_called" /\ call.fn = "extract_brand") =>
    call.result = Meny_extract_brand(FreshSelf, call.info, call.name)

\* C27: process_product never destroys attribute data already on the
\* product. A key that holds a non-null value before the call holds a
\* non-null value after it (the old one when the text yields no match), and
\* a key outside the extraction vocabulary keeps its value.
C27_NoDataDestroyed ==
  (pc = "called" /\ snapshot[1].attributes.t = "dict") =>
    \E before \in {snapshot[1].attributes.d} :
    \E after \in {products[1].attributes.d} :
    \A k \in DOMAIN before :
      /\ k \in DOMAIN after
      /\ before[k] # None => after[k] # None
      /\ k \notin C18_Vocabulary => after[k] = before[k]

\* Whether the word holds an apostrophe.
C29_Apostrophe(w) == \E i \in 1..Len(w) : w[i] = "'"

\* C29: rule-table entries that contain an apostrophe remain effective
\* through process_product. A product without a brand whose raw name or info
\* contains a brand key with an apostrophe (and no other brand key) gets the
\* dictionary brand of such a key, and a product without a subcategory whose
\* only subcategory keyword is "go'morgen" or "go'dag" is classified
\* "yoghurt".
C29_ApostropheEntriesEffective ==
  (Extracted /\ ~rerun) =>
    \E text \in {Lower(Join2(snapshot[1].info.s,
                             IF snapshot[1].name.t = "str"
                             THEN snapshot[1].name.s ELSE <<>>))} :
    \E keys \in {{k \in 1..Len(BRANDS) : Contains(text, BRANDS[k][1])}} :
    \E words \in {{w \in UNION {{SUBCATEGORY_MAPPING[k][2][j] :
                                    j \in 1..Len(SUBCATEGORY_MAPPING[k][2])} :
                                 k \in 1..Len(SUBCATEGORY_MAPPING)} :
                     Contains(text, w)}} :
      /\ (BrandMissing(snapshot[1]) /\ keys # {}
            /\ \A k \in keys : C29_Apostrophe(BRANDS[k][1])) =>
           \E k \in keys : products[1].brand = Str(BRANDS[k][2])
      /\ (SubcategoryMissing(snapshot[1]) /\ words # {}
            /\ words \subseteq {<<"g","o","'","m","o","r","g","e","n">>, <<"g","o","'","d","a","g">>}) =>
           products[1].subcategory = Str(<<"y","o","g","h","u","r","t">>)

\* The attribute keys of the stages both variants have.
C30_SharedKeys ==
  {"size_quantity", "size_unit", "fat_content", "pack_quantity", "unit_size",
   "unit_size_unit", "egg_size", "egg_quantity", "egg_type"}

\* C30: the two variants agree on their shared stages. For every input
\* product, fresh MenyProcessor and OdaProcessor instances produce the same
\* brand and subcategory and the same values for the nine shared attribute
\* keys; the Meny attribute map is a sub-map of the Oda one.
C30_VariantsAgree ==
  (pc = "called" /\ ~rerun /\ call.self_before = FreshSelf) =>
    \E oda \in {IF variant = "oda" THEN products[1]
                 ELSE ProcessProduct("oda", FreshSelf, snapshot[1]).product} :
    \E meny \in {IF variant = "meny" THEN products[1]
                  ELSE ProcessProduct("meny", FreshSelf, snapshot[1]).product} :
      /\ oda.brand = meny.brand
      /\ oda.subcategory = meny.subcategory
      /\ oda.attributes.t = meny.attributes.t
      /\ oda.attributes.t = "dict" =>
           /\ DOMAIN meny.attributes.d \subseteq DOMAIN oda.attributes.d
           /\ \A k \in DOMAIN meny.attributes.d :
                meny.attributes.d[k] = oda.attributes.d[k]
           /\ \A k \in C30_SharedKeys :
                k \in DOMAIN oda.attributes.d => k \in DOMAIN meny.attributes.d

\* A MenyProcessor call on an egg product whose text names the brand TINE:
\* brand, subcategory and the egg keys are set, the Oda-only keys are not.
C30_Witness ==
  /\ pc = "called"
  /\ ~rerun
  /\ call.self_before = FreshSelf
  /\ variant = "meny"
  /\ snapshot[1].info = Str(T_InfoTine)
  /\ snapshot[1].brand = None
  /\ snapshot[1].subcategory = Str(T_egg)
  /\ products[1].brand = Str(T_TINE)
  /\ products[1].attributes.t = "dict"
  /\ C30_SharedKeys \ {"fat_content"} \subseteq DOMAIN products[1].attributes.d
  /\ "organic" \notin DOMAIN products[1].attributes.d
(***************************************************************************)
(* Claims about concurrent calls (specification SpecPar).                  *)
(***************************************************************************)
\* C8: when two process_product calls for different products run
\* concurrently on one shared instance, under every interleaving of their
\* statements each product ends with the brand, subcategory and attributes
\* it gets when processed alone.
C8_ConcurrentAsAlone ==
  pc = "joined" =>
    \A t \in 1..Len(products) :
      Resolved(products[t]) =
        Resolved(ProcessProduct(variant, FreshSelf, snapshot[t]).product)

(***************************************************************************)
(* Claims about extract_brand (specification SpecBrand).                   *)
(***************************************************************************)
\* The stages of C10 on the arguments info and name, each as the set of
\* values it allows: keys are the table entries whose key occurs in the
\* lower-cased "info name"; upper the comma-separated segments of info
\* that, stripped, are upper case and longer than one character; last the
\* stripped text after the last comma of info.
C10_Stages(info, name, result) ==
  \E text \in {Lower(info \o <<" ">> \o name)} :
  \E segments \in {Split(info, ",")} :
  \E keys \in {{k \in 1..Len(BRANDS) : Contains(text, Lower(BRANDS[k][1]))}} :
  \E upper \in {{k \in 1..Len(segments) :
                   \E p \in {Strip(segments[k])} : IsUpper(p) /\ Len(p) > 1}} :
  \E commas \in {{i \in 1..Len(info) : info[i] = ","}} :
    IF keys # {}
    THEN \E k \in keys : result = Str(BRANDS[k][2])
    ELSE IF upper # {}
    THEN \E k \in upper :
           /\ \A j \in upper : k <= j
           /\ result = Str(Strip(segments[k]))
    ELSE IF commas # {}
    THEN \E c \in commas :
           /\ \A j \in commas : j <= c
           /\ \E last \in {Strip(SubSeq(info, c + 1, Len(info)))} :
                result = IF Len(last) < 20 THEN Str(last) ELSE None
    ELSE result = None

\* C10: extract_brand tries its stages in a fixed order and returns the
\* first hit: the canonical name of a dictionary key whenever a brand key
\* is a substring of the lower-cased info and name; only otherwise the
\* first comma-separated segment of info that is upper case and longer
\* than one character; only otherwise the text after the last comma of
\* info when it is shorter than 20 characters; otherwise None.
C10_StagesInOrder ==
  pc = "returned" => C10_Stages(call.info, call.name, call.result)

\* A key in the text and an upper-case segment before it: the key wins.
C10_Witness ==
  /\ pc = "returned"
  /\ call.info = <<"Ä", "Ö", ",", "q">>
  /\ call.name = <<>>
  /\ call.result = Str(<<"Q">>)

\* C11: overlapping brand keys are resolved specific-before-general:
\* whenever the text contains two keys of the table one of which is a
\* substring of the other, extract_brand returns the canonical name mapped
\* to the longer key.
C11_LongerKeyWins ==
  pc = "returned" =>
    \E text \in {Lower(call.info \o <<" ">> \o call.name)} :
      \A long \in 1..Len(BRANDS), short \in 1..Len(BRANDS) :
        ( /\ Len(BRANDS[short][1]) < Len(BRANDS[long][1])
          /\ Contains(BRANDS[long][1], BRANDS[short][1])
          /\ Contains(text, Lower(BRANDS[long][1])) )
        => call.result = Str(BRANDS[long][2])


\* C28: extract_brand returns either None or a non-empty string. When no
\* dictionary key and no upper-case segment matches and the text after the
\* last comma of info is empty, the brand is None, never the empty string.
C28_NoneOrNonEmpty ==
  (pc = "returned" /\ call.fn = "extract_brand") =>
    \/ call.result = None
    \/ call.result.t = "str" /\ call.result.s # <<>>
(***************************************************************************)
(* Claims about the extraction methods (specification SpecText).           *)
(***************************************************************************)
\* The subcategories in the order C12 gives them.
C12_Order ==
  << <<"m","e","l","k">>, <<"p","l","a","n","t","e","b","a","s","e","r","t">>, <<"o","s","t">>, <<"s","m","ø","r">>, <<"e","g","g">>,
     <<"f","l","ø","t","e","_","r","ø","m","m","e">>, <<"y","o","g","h","u","r","t">>, <<"k","j","ø","l","t","e","_","d","e","s","s","e","r","t","e","r">>,
     <<"c","o","t","t","a","g","e","_","c","h","e","e","s","e">> >>

\* Subcategory number k of C12_Order has a keyword in text.
C12_Hit(k, text) ==
  \E e \in 1..Len(SUBCATEGORY_MAPPING) :
    /\ SUBCATEGORY_MAPPING[e][1] = C12_Order[k]
    /\ \E j \in 1..Len(SUBCATEGORY_MAPPING[e][2]) :
         Contains(text, SUBCATEGORY_MAPPING[e][2][j])

\* C12: determine_subcategory returns the first subcategory in the order
\* melk, plantebasert, ost, smør, egg, fløte_rømme, yoghurt,
\* kjølte_desserter, cottage_cheese that has a keyword occurring in the
\* lower-cased "name info" text, and "other" when none has; the result is
\* always one of these ten values.
C12_FirstSubcategoryInOrder ==
  (pc = "result" /\ call.fn = "determine_subcategory") =>
    \E text \in {Lower(call.name \o <<" ">> \o call.info)} :
    \E hits \in {{k \in 1..Len(C12_Order) : C12_Hit(k, text)}} :
      /\ \A k \in hits :
           (\A j \in hits : k <= j) => call.result = Str(C12_Order[k])
      /\ hits = {} => call.result = Str(<<"o","t","h","e","r">>)
      /\ call.result.t = "str"
      /\ call.result.s \in {C12_Order[k] : k \in 1..Len(C12_Order)} \cup {<<"o","t","h","e","r">>}

\* Keywords of ost, egg and cottage_cheese in one text, the later ones first.
C12_Witness ==
  /\ pc = "result"
  /\ call.fn = "determine_subcategory"
  /\ call.info = <<"k","e","s","a","m","e","g","g","O","s","t">>
  /\ call.name = <<>>
  /\ call.result = Str(<<"o","s","t">>)

\* The units of C13.
C13_Units ==
  { <<"l">>, <<"m","l">>, <<"g">>, <<"k","g">>, <<"d","l">>, <<"c","l">>, <<"s","t","k">> }

\* s is a non-empty string of digits.
C13_Number(s) == Len(s) > 0 /\ \A i \in 1..Len(s) : IsDigit(s[i])

\* C13: when info begins with a size string '<N><sep><M> <unit>', sep a
\* comma or a dot and unit one of l, ml, g, kg, dl, cl, stk in any letter
\* case, extract_size returns size_quantity = N.M and size_unit = the whole
\* unit lower-cased, whatever follows it (further sizes included): the first
\* size is returned.
C13_DecimalSizeAndWholeUnit ==
  (pc = "result" /\ call.fn = "extract_size") =>
    \E s \in {call.info} :
      \A i \in 1..Len(s) : \A j \in (i + 2)..Len(s) : \A k \in (j + 2)..Len(s) :
        ( /\ C13_Number(SubSeq(s, 1, i))
          /\ s[i + 1] \in {",", "."}
          /\ C13_Number(SubSeq(s, i + 2, j))
          /\ s[j + 1] = " "
          /\ Lower(SubSeq(s, j + 2, k)) \in C13_Units )
        => /\ call.result.size_quantity =
                NormFloat(ParseInt(SubSeq(s, 1, i) \o SubSeq(s, i + 2, j)), j - i - 1)
           /\ call.result.size_unit = Str(Lower(SubSeq(s, j + 2, k)))

\* "0,33 cL" followed by a second size: 0.33 and the whole unit "cl".
C13_Witness ==
  /\ pc = "result"
  /\ call.fn = "extract_size"
  /\ call.info = <<"0",",","3","3"," ","c","L"," ","2",".","5"," ","S","t","k">>
  /\ call.result.size_quantity = FloatV(33, 2)
  /\ call.result.size_unit = Str(<<"c","l">>)

\* s is '<digits>' or '<digits><sep><digits>' with sep a comma or a dot.
C14_Decimal(s) ==
  \/ C13_Number(s)
  \/ \E i \in 2..(Len(s) - 1) :
       /\ s[i] \in {",", "."}
       /\ C13_Number(SubSeq(s, 1, i - 1))
       /\ C13_Number(SubSeq(s, i + 1, Len(s)))

\* The value of the decimal s as the normalised float.
C14_Value(s) ==
  IF C13_Number(s) THEN NormFloat(ParseInt(s), 0)
  ELSE \* the one separator splits it
    CHOOSE v \in { NormFloat(ParseInt(SubSeq(s, 1, i - 1) \o SubSeq(s, i + 1, Len(s))),
                             Len(s) - i) :
                   i \in {i \in 1..Len(s) : ~IsDigit(s[i])} } : TRUE

\* A multipack '<int>x<number><unit>' (blanks allowed before the unit)
\* begins at position p of s; when cmp holds, res is moreover what it gives.
C14_MultipackAt(s, p, res, cmp) ==
  \E a \in p..(Len(s) - 1) :
    /\ C13_Number(SubSeq(s, p, a))
    /\ p = 1 \/ ~IsDigit(s[p - 1])
    /\ s[a + 1] \in {"x", "X"}
    /\ \E b \in (a + 2)..Len(s) :
         /\ C14_Decimal(SubSeq(s, a + 2, b))
         /\ \E c \in b..Len(s) :
              /\ \A i \in (b + 1)..c : s[i] = " "
              /\ \E d \in (c + 1)..Len(s) :
                   /\ Lower(SubSeq(s, c + 1, d)) \in
                        { <<"g">>, <<"m","l">>, <<"l">>, <<"k","g">>, <<"s","t","k">> }
                   /\ cmp => res = [pack_quantity |-> IntV(ParseInt(SubSeq(s, p, a))),
                                    unit_size |-> C14_Value(SubSeq(s, a + 2, b)),
                                    unit_size_unit |-> Str(Lower(SubSeq(s, c + 1, d)))]

\* A pack quantity '<int> pk|stk|pakk|pakning' (blanks optional) begins at
\* position p of s; when cmp holds, res is moreover what it gives.
C14_PackAt(s, p, res, cmp) ==
  \E a \in p..(Len(s) - 1) :
    /\ C13_Number(SubSeq(s, p, a))
    /\ p = 1 \/ ~IsDigit(s[p - 1])
    /\ \E c \in a..Len(s) :
         /\ \A i \in (a + 1)..c : s[i] = " "
         /\ \E d \in (c + 1)..Len(s) :
              /\ Lower(SubSeq(s, c + 1, d)) \in
                   { <<"p","k">>, <<"s","t","k">>, <<"p","a","k","k">>, <<"p","a","k","n","i","n","g">> }
              /\ cmp => res = [pack_quantity |-> IntV(ParseInt(SubSeq(s, p, a))),
                               unit_size |-> None,
                               unit_size_unit |-> None]

\* C14: extract_multipack_info gives the multipack pattern priority: if
\* the text contains '<int>x<number><unit>', pack_quantity, unit_size and
\* unit_size_unit all come from its first occurrence and the pack-quantity
\* pattern is not consulted; only when no multipack occurs is pack_quantity
\* taken from the first '<int> pk|stk|pakk|pakning' occurrence, with
\* unit_size and unit_size_unit undetected (None).
C14_MultipackFirst ==
  (pc = "result" /\ call.fn = "extract_multipack_info") =>
    \E s \in {call.info} : \E res \in {call.result} :
    \E multi \in {{p \in 1..Len(s) : C14_MultipackAt(s, p, res, FALSE)}} :
      IF multi # {}
      THEN \E p \in multi : (\A q \in multi : p <= q) /\ C14_MultipackAt(s, p, res, TRUE)
      ELSE \E pack \in {{p \in 1..Len(s) : C14_PackAt(s, p, res, FALSE)}} :
             pack # {} =>
               \E p \in pack : (\A q \in pack : p <= q) /\ C14_PackAt(s, p, res, TRUE)

\* A pack quantity before a multipack: the multipack gives all three keys.
C14_Witness ==
  /\ pc = "result"
  /\ call.fn = "extract_multipack_info"
  /\ call.info = <<"6"," ","s","t","k"," ","4","x","1","2","5","g">>
  /\ call.result = [pack_quantity |-> IntV(4), unit_size |-> FloatV(125, 0),
                    unit_size_unit |-> Str(<<"g">>)]

\* A '<number>%' begins at position p of s; when cmp holds, res is
\* moreover the number.
C15_PercentAt(s, p, res, cmp) ==
  \E a \in p..(Len(s) - 1) :
    /\ C14_Decimal(SubSeq(s, p, a))
    /\ p = 1 \/ ~IsDigit(s[p - 1])
    /\ s[a + 1] = "%"
    /\ cmp => res = C14_Value(SubSeq(s, p, a))

\* res is what C15 says of the text s: the number of the first '<number>%',
\* None when there is none.
C15_FirstPercent(s, res) ==
  \E found \in {{p \in 1..Len(s) : C15_PercentAt(s, p, res, FALSE)}} :
    IF found = {} THEN res = None
    ELSE \E p \in found : (\A q \in found : p <= q) /\ C15_PercentAt(s, p, res, TRUE)

\* C15: extract_fat_content returns the number of the first '<number>%'
\* occurrence in the text (comma or dot decimal, with or without a following
\* 'fett') and None when there is none; process_product writes the
\* fat_content key exactly when a value was found in the cleaned info, with
\* that value.
C15_FatContentWhenFound ==
  /\ (pc = "result" /\ call.fn = "extract_fat_content") =>
       C15_FirstPercent(call.info, call.result)
  /\ pc = "processed" =>
       \E a \in {products[1].attributes.d} :
         IF "fat_content" \in DOMAIN a
         THEN a.fat_content # None
              /\ C15_FirstPercent(clean_text(snapshot[1].info), a.fat_content)
         ELSE C15_FirstPercent(clean_text(snapshot[1].info), None)

\* Two percentages in one text: the first is returned.
C15_Witness ==
  /\ pc = "result"
  /\ call.fn = "extract_fat_content"
  /\ call.info = <<"7","%","3",",","5","%">>
  /\ call.result = FloatV(7, 0)


\* Whether the keyword occurs in the lowercased text of the call.
C20_Has(keyword) ==
  \E low \in {Lower(call.info)} :
  \E i \in 1..Len(low) :
    /\ i + Len(keyword) - 1 <= Len(low)
    /\ SubSeq(low, i, i + Len(keyword) - 1) = keyword

\* C20: extract_egg_info resolves the egg type by fixed priority, wherever
\* the keywords stand in the text: "Frittgående" if the lowercased text
\* contains "frittgående", otherwise "Økologisk" if it contains "økologisk",
\* otherwise "Friland" if it contains "friland", otherwise no egg type.
C20_EggTypeByPriority ==
  (pc = "result" /\ call.fn = "extract_egg_info") =>
    call.result.egg_type =
      IF C20_Has(<<"f","r","i","t","t","g","å","e","n","d","e">>) THEN Str(<<"F","r","i","t","t","g","å","e","n","d","e">>)
      ELSE IF C20_Has(<<"ø","k","o","l","o","g","i","s","k">>) THEN Str(<<"Ø","k","o","l","o","g","i","s","k">>)
      ELSE IF C20_Has(<<"f","r","i","l","a","n","d">>) THEN Str(<<"F","r","i","l","a","n","d">>)
      ELSE None

\* The three keywords in reverse priority order, the last one in capitals:
\* the egg type is the one of the keyword that stands last.
C20_Witness ==
  /\ pc = "result"
  /\ call.fn = "extract_egg_info"
  /\ call.info = <<"f","r","i","l","a","n","d","Ø","k","o","l","o","g","i","s","k","F","R","I","T","T","G","Å","E","N","D","E">>
  /\ call.result.egg_type = Str(<<"F","r","i","t","t","g","å","e","n","d","e">>)
(***************************************************************************)
(* Claims about the factory (specification SpecFactory).                   *)
(***************************************************************************)
\* The keys of the cheese, dietary and flavor/product-type stages.
C17_OdaOnlyKeys ==
  {"lactose_free", "gluten_free", "organic", "vegan", "flavor", "product_type",
   "cheese_type", "aging", "preparation"}

\* C17: cheese, dietary-flag and flavor/product-type extraction are applied
\* for the Oda variant only: a product processed by the processor that
\* get_processor returns for scraper type 'meny' gains none of the keys
\* lactose_free, gluten_free, organic, vegan, flavor, product_type,
\* cheese_type, aging, preparation.
C17_MenyGainsNoOdaKeys ==
  ( /\ pc = "made_called"
    /\ call.scraper_type = <<"m", "e", "n", "y">>
    /\ products[1].attributes.t = "dict" ) =>
    (DOMAIN products[1].attributes.d \ DOMAIN snapshot[1].attributes.d)
      \cap C17_OdaOnlyKeys = {}

(***************************************************************************)
(* Claims about the category and feature extractors (SpecDetail).          *)
(***************************************************************************)
\* The size tokens of the egg_size pattern, in the order of its alternatives.
C21_Tokens == <<<<"x","s">>, <<"s">>, <<"m">>, <<"l">>, <<"x","l">>>>

\* Whether the word w stands in the text low at position i (1-based).
C21_Starts(low, w, i) ==
  /\ i + Len(w) - 1 <= Len(low)
  /\ SubSeq(low, i, i + Len(w) - 1) = w

\* The tokens that stand in low as a word of their own: between the start of
\* the text or a blank and a blank or the end of the text.
C21_Words(low) ==
  { k \in 1..Len(C21_Tokens) :
      \E i \in 1..Len(low) :
        /\ C21_Starts(low, C21_Tokens[k], i)
        /\ i = 1 \/ low[i - 1] = " "
        /\ i + Len(C21_Tokens[k]) > Len(low) \/ low[i + Len(C21_Tokens[k])] = " " }

\* C21 as stated: an egg text that states a size token yields egg_size, with
\* or without the "str."/"størrelse" prefix.
C21_PrefixOptional ==
  (pc = "result" /\ call.fn = "extract_egg_info") =>
    (C21_Words(Lower(call.info)) # {} => call.result.egg_size # None)

\* The tokens that follow a prefix starting at position i of low: "str" with
\* an optional ".", or "størrelse", then blanks, then the token.
C21_After(low, i) ==
  { k \in 1..Len(C21_Tokens) :
      \E p \in {<<"s","t","r",".">>, <<"s","t","r">>, <<"s","t","ø","r","r","e","l","s","e">>} :
      \E j \in (i + Len(p))..Len(low) :
        /\ C21_Starts(low, p, i)
        /\ \A b \in (i + Len(p))..(j - 1) : low[b] \in Whitespace
        /\ C21_Starts(low, C21_Tokens[k], j) }

\* C21 (amended): the prefix is required. egg_size is written exactly when
\* the text holds "str", "str." or "størrelse" (in any letter case), then
\* optional blanks, then one of xs, s, m, l, xl; its value is the whole token
\* after the leftmost such prefix, in capitals ("XL", never "L"). A size
\* token without the prefix yields no egg_size.
C21_PrefixedEggSize ==
  (pc = "result" /\ call.fn = "extract_egg_info") =>
    \E low \in {Lower(call.info)} :
    \E hits \in {{i \in 1..Len(low) : C21_After(low, i) # {}}} :
      call.result.egg_size =
        IF hits = {} THEN None
        ELSE Str(Upper(C21_Tokens[Min(C21_After(low, Min(hits)))]))

\* "Størrelse XL": the prefix in capitals, a blank, and the two-letter token.
C21_Witness ==
  /\ pc = "result"
  /\ call.fn = "extract_egg_info"
  /\ call.info = <<"S","t","ø","r","r","e","l","s","e"," ","X","L">>
  /\ call.result.egg_size = Str(<<"X","L">>)

\* The cheese types in list order, as searched and as returned.
C22_Types ==
  << <<<<"h","v","i","t">>, <<"H","v","i","t">>>>, <<<<"b","l","å">>, <<"B","l","å">>>>, <<<<"b","r","i","e">>, <<"B","r","i","e">>>>,
     <<<<"c","h","e","d","d","a","r">>, <<"C","h","e","d","d","a","r">>>>, <<<<"f","e","t","a">>, <<"F","e","t","a">>>>,
     <<<<"p","a","r","m","e","s","a","n">>, <<"P","a","r","m","e","s","a","n">>>>, <<<<"g","e","i","t","o","s","t">>, <<"G","e","i","t","o","s","t">>>>,
     <<<<"b","r","u","n","o","s","t">>, <<"B","r","u","n","o","s","t">>>> >>

\* The digits low[i..j] followed by optional blanks and "mnd" or "måned".
C22_AgingAt(low, i, j) ==
  /\ \A d \in i..j : IsDigit(low[d])
  /\ \E e \in (j + 1)..Len(low) :
       /\ \A b \in (j + 1)..(e - 1) : low[b] \in Whitespace
       /\ C21_Starts(low, <<"m","n","d">>, e) \/ C21_Starts(low, <<"m","å","n","e","d">>, e)

\* C22: extract_cheese_info is first-match-wins in fixed orders. preparation
\* is "Skivet" if the text contains skivet or skiver, else "Revet" if it
\* contains revet or raspet, else "Hel" if it contains hel, else None;
\* cheese_type is the capitalised first entry of the list hvit, blå, brie,
\* cheddar, feta, parmesan, geitost, brunost found in the text; aging is
\* "<n> måneder" for the leftmost "<int> mnd" or "<int> måned".
C22_CheeseFirstMatch ==
  (pc = "result" /\ call.fn = "extract_cheese_info") =>
    \E low \in {Lower(call.info)} :
    \E found \in {{k \in 1..Len(C22_Types) : C20_Has(C22_Types[k][1])}} :
    \E aged \in {{p \in (1..Len(low)) \X (1..Len(low)) :
                    p[1] <= p[2] /\ C22_AgingAt(low, p[1], p[2])}} :
      /\ call.result.preparation =
           IF C20_Has(<<"s","k","i","v","e","t">>) \/ C20_Has(<<"s","k","i","v","e","r">>) THEN Str(<<"S","k","i","v","e","t">>)
           ELSE IF C20_Has(<<"r","e","v","e","t">>) \/ C20_Has(<<"r","a","s","p","e","t">>) THEN Str(<<"R","e","v","e","t">>)
           ELSE IF C20_Has(<<"h","e","l">>) THEN Str(<<"H","e","l">>)
           ELSE None
      /\ call.result.cheese_type =
           IF found = {} THEN None ELSE Str(C22_Types[Min(found)][2])
      /\ IF aged = {} THEN call.result.aging = None
         ELSE \E p \in aged :
                /\ \A q \in aged : p[1] <= q[1]
                /\ call.result.aging =
                     Str(SubSeq(call.info, p[1], p[2]) \o <<" ","m","å","n","e","d","e","r">>)

\* "hel Cheddar" before "Skiver blå" before "12 MÅNED": each result is the
\* one of the higher-ranking keyword although it stands later in the text.
C22_Witness ==
  /\ pc = "result"
  /\ call.fn = "extract_cheese_info"
  /\ call.info = <<"h","e","l"," ","C","h","e","d","d","a","r","S","k","i","v","e","r"," ","b","l","å","1","2"," ","M","Å","N","E","D">>
  /\ call.result = [cheese_type |-> Str(<<"B","l","å">>), aging |-> Str(<<"1","2"," ","m","å","n","e","d","e","r">>),
                    preparation |-> Str(<<"S","k","i","v","e","t">>)]

\* The keyword sets of the four dietary flags.
C23_Keywords ==
  [lactose_free |-> {<<"l","a","k","t","o","s","e","f","r","i">>, <<"u","t","e","n"," ","l","a","k","t","o","s","e">>},
   gluten_free |-> {<<"g","l","u","t","e","n","f","r","i">>, <<"u","t","e","n"," ","g","l","u","t","e","n">>},
   organic |-> {<<"ø","k","o","l","o","g","i","s","k">>, <<"o","r","g","a","n","i","c">>, <<"e","c","o">>, <<"ø","k","o">>},
   vegan |-> {<<"v","e","g","a","n","s","k">>, <<"v","e","g","a","n">>, <<"p","l","a","n","t","e","b","a","s","e","r","t">>}]

\* Whether a keyword of the flag's own set is a substring of the lowercased
\* text.
C23_Flag(flag, text) ==
  \E low \in {Lower(text)} :
  \E w \in C23_Keywords[flag] :
  \E i \in 1..Len(low) : C21_Starts(low, w, i)

\* C23: the four dietary flags are evaluated independently. Each of
\* lactose_free, gluten_free, organic and vegan is true exactly when a keyword
\* of its own set is a substring of the lowercased text and false otherwise,
\* whatever the other three are: in a direct call of extract_dietary_info for
\* its argument, and after process_product on an Oda product with non-empty
\* info for the normalised info text the stage is given.
C23_FlagsIndependent ==
  /\ (pc = "result" /\ call.fn = "extract_dietary_info") =>
       \A flag \in DOMAIN C23_Keywords :
         call.result[flag] = BoolV(C23_Flag(flag, call.info))
  /\ (pc = "processed" /\ call.fn = "extract_dietary_info"
        /\ ~InfoMissing(snapshot[1])) =>
       \E text \in {clean_text(snapshot[1].info)} :
       \A flag \in DOMAIN C23_Keywords :
         /\ flag \in DOMAIN products[1].attributes.d
         /\ products[1].attributes.d[flag] = BoolV(C23_Flag(flag, text))

\* process_product on "LaktosefriØKO": lactose_free and organic are true,
\* gluten_free and vegan false.
C23_Witness ==
  /\ pc = "processed"
  /\ call.fn = "extract_dietary_info"
  /\ snapshot[1].info = Str(<<"L","a","k","t","o","s","e","f","r","i","Ø","K","O">>)
  /\ products[1].attributes.d.lactose_free = BoolV(TRUE)
  /\ products[1].attributes.d.gluten_free = BoolV(FALSE)
  /\ products[1].attributes.d.organic = BoolV(TRUE)
  /\ products[1].attributes.d.vegan = BoolV(FALSE)

\* The flavor list in order: <<keyword, value returned>>.
C24_Flavors ==
  << <<<<"j","o","r","d","b","æ","r">>, <<"J","o","r","d","b","æ","r">>>>,
     <<<<"v","a","n","i","l","j","e">>, <<"V","a","n","i","l","j","e">>>>,
     <<<<"s","j","o","k","o","l","a","d","e">>, <<"S","j","o","k","o","l","a","d","e">>>>,
     <<<<"b","r","i","n","g","e","b","æ","r">>, <<"B","r","i","n","g","e","b","æ","r">>>>,
     <<<<"b","l","å","b","æ","r">>, <<"B","l","å","b","æ","r">>>>,
     <<<<"s","k","o","g","s","b","æ","r">>, <<"S","k","o","g","s","b","æ","r">>>>,
     <<<<"k","a","k","a","o">>, <<"K","a","k","a","o">>>>,
     <<<<"k","a","r","a","m","e","l","l">>, <<"K","a","r","a","m","e","l","l">>>>,
     <<<<"s","i","t","r","o","n">>, <<"S","i","t","r","o","n">>>>,
     <<<<"e","p","l","e">>, <<"E","p","l","e">>>>,
     <<<<"k","a","n","e","l">>, <<"K","a","n","e","l">>>>,
     <<<<"k","a","r","d","e","m","o","m","m","e">>, <<"K","a","r","d","e","m","o","m","m","e">>>>,
     <<<<"b","a","n","a","n">>, <<"B","a","n","a","n">>>> >>

\* The product types in order: <<value returned, keywords>>.
C24_Types ==
  << <<<<"L","e","t","t","m","e","l","k">>, {<<"l","e","t","t","m","e","l","k">>, <<"l","e","t","t"," ","m","e","l","k">>}>>,
     <<<<"H","e","l","m","e","l","k">>, {<<"h","e","l","m","e","l","k">>, <<"h","e","l"," ","m","e","l","k">>}>>,
     <<<<"S","k","u","m","m","e","t">>, {<<"s","k","u","m","m","e","t">>, <<"s","k","u","m","m","a">>}>>,
     <<<<"K","e","f","i","r">>, {<<"k","e","f","i","r">>}>>,
     <<<<"K","u","l","t","u","r","m","e","l","k">>, {<<"k","u","l","t","u","r","m","e","l","k">>, <<"k","u","l","t","u","r","m","j","ø","l","k">>}>>,
     <<<<"E","k","s","t","r","a"," ","l","e","t","t">>, {<<"e","k","s","t","r","a"," ","l","e","t","t">>, <<"e","x","t","r","a"," ","l","e","t","t">>}>> >>

\* Whether the word occurs in the text low.
C24_In(low, w) == \E i \in 1..Len(low) : C21_Starts(low, w, i)

\* C24: extract_features is first-match-wins over fixed lists. flavor is the
\* capitalised first entry of the flavor list that occurs in the lowercased
\* "name info", product_type the capitalised label of the first product type
\* one of whose keywords occurs in it; each key is omitted when nothing
\* matches, and no other key is returned.
C24_FeaturesFirstMatch ==
  (pc = "result" /\ call.fn = "extract_features") =>
    \E low \in {Lower(call.name \o <<" ">> \o call.info)} :
    \E fl \in {{k \in 1..Len(C24_Flavors) : C24_In(low, C24_Flavors[k][1])}} :
    \E ty \in {{k \in 1..Len(C24_Types) :
                  \E w \in C24_Types[k][2] : C24_In(low, w)}} :
      /\ DOMAIN call.result =
           (IF fl = {} THEN {} ELSE {"flavor"}) \cup
           (IF ty = {} THEN {} ELSE {"product_type"})
      /\ fl # {} => call.result.flavor = Str(C24_Flavors[Min(fl)][2])
      /\ ty # {} => call.result.product_type = Str(C24_Types[Min(ty)][1])

\* Name "Banan lett", info "melkJordbærEKSTRA LETT": the flavor is Jordbær
\* although banan stands first, the type Lettmelk ("lett melk" across the
\* join of name and info) although "ekstra lett" occurs too.
C24_Witness ==
  /\ pc = "result"
  /\ call.fn = "extract_features"
  /\ call.name = <<"B","a","n","a","n"," ","l","e","t","t">>
  /\ call.info = <<"m","e","l","k","J","o","r","d","b","æ","r","E","K","S","T","R","A"," ","L","E","T","T">>
  /\ call.result = [flavor |-> Str(<<"J","o","r","d","b","æ","r">>), product_type |-> Str(<<"L","e","t","t","m","e","l","k">>)]

\* Nothing matches: the result has no key.
C24_WitnessOmitted ==
  /\ pc = "result"
  /\ call.fn = "extract_features"
  /\ call.info = <<"m","e","l","k"," ">>
  /\ DOMAIN call.result = {}

\* C25: clean_text produces a normal form. Its output contains no quote
\* character, no semicolon, no leading or trailing whitespace and no run of
\* two or more whitespace characters, so cleaning it again changes nothing;
\* empty or non-string input yields the empty string.
C25_NormalForm ==
  (pc = "result" /\ call.fn = "clean_text") =>
    \E out \in {call.result.cleaned.s} :
      /\ \A i \in 1..Len(out) : out[i] \notin {"'", "\"", ";"}
      /\ out # <<>> => out[1] \notin Whitespace /\ out[Len(out)] \notin Whitespace
      /\ \A i \in 1..(Len(out) - 1) :
           ~(out[i] \in Whitespace /\ out[i + 1] \in Whitespace)
      /\ clean_text(Str(out)) = out
      /\ (call.result.text.t # "str" \/ call.result.text = Str(<<>>)) => out = <<>>

====
